---- MODULE Spec2Model ----
(***************************************************************************)
(* A model of ck3-tiger's block validator (src/block/validator.rs) and of  *)
(* the scope lookups (src/scopes.rs).                                      *)
(*                                                                         *)
(* A Block is a sequence of entries (key, comparator, value).  A Validator *)
(* borrows one block and carries known_fields, accepted_tokens and         *)
(* accepted_blocks.  Every method of Validator is one action; the          *)
(* diagnostics it hands to the (external) error sink, the handler calls it *)
(* makes and the entries its loop visits are recorded for the most recent  *)
(* call.                                                                   *)
(***************************************************************************)
EXTENDS Integers, Sequences, FiniteSets, TLC

\* ------------------------------------------------------------------ bounds
\* Longest top-level block drawn by Init.
MaxLen == 2

\* ------------------------------------------------------------ the block AST
\* An entry without a key (a loose value or loose sub-block) has key = NoKey.
NoKey == "<none>"

\* The field names client code declares.
Names == {"trigger", "animation"}

\* A key that Date::try_from accepts.
DateKey == "1066.9.15"

Keys == Names \cup {DateKey}

\* Comparator::Eq and one comparator that is not Eq.
Cmps == {"=", ">"}

\* Scalar token texts.
Tokens == {"yes", "10"}

Tok(s) == [kind |-> "token", s |-> s, v |-> <<>>]
Blk(v) == [kind |-> "block", s |-> "", v |-> v]
Entry(k, c, v) == [key |-> k, cmp |-> c, val |-> v]

\* The content of the sub-blocks: empty, and a keyed scalar followed by a
\* loose scalar and a loose nested block.
InnerMixed ==
    << Entry("k", "=", Tok("10")), Entry(NoKey, "=", Tok("yes")),
       Entry(NoKey, "=", Blk(<<>>)) >>

\* The top-level entries blocks are built from.
Entries ==
    { Entry("animation", "=", Tok("yes")),
      Entry("animation", ">", Tok("10")),
      Entry("trigger", "=", Blk(InnerMixed)),
      Entry(DateKey, "=", Blk(<<>>)),
      Entry(DateKey, ">", Tok("10")),
      Entry(NoKey, "=", Tok("10")),
      Entry(NoKey, "=", Blk(<<>>)) }

RECURSIVE SeqsUpTo(_, _)
SeqsUpTo(S, n) ==
    IF n = 0 THEN {<<>>}
    ELSE LET shorter == SeqsUpTo(S, n - 1)
         IN shorter \cup {Append(q, x) : q \in {p \in shorter : Len(p) = n - 1}, x \in S}

Blocks == SeqsUpTo(Entries, MaxLen)

\* ------------------------------------------------------------- diagnostics
\* A location: the block itself, or the key or the value of top-level entry i
\* (of entry j inside the sub-block of entry i when j > 0).
BlockLoc == [part |-> "block", i |-> 0, j |-> 0]
KeyLoc(i) == [part |-> "key", i |-> i, j |-> 0]
ValLoc(i) == [part |-> "value", i |-> i, j |-> 0]
InnerKeyLoc(i, j) == [part |-> "key", i |-> i, j |-> j]
InnerValLoc(i, j) == [part |-> "value", i |-> i, j |-> j]

Diag(sev, key, msg, loc) == [sev |-> sev, key |-> key, msg |-> msg, loc |-> loc]
error(loc, key, msg) == Diag("error", key, msg, loc)
warn(loc, key, msg) == Diag("warn", key, msg, loc)
advice(loc, key, msg) == Diag("advice", key, msg, loc)

\* The messages, by the category the specification gives them.
MissingField == "required field missing"
DuplicateField == "multiple definitions, expected only one"
WrongComparator == "expected =, found other comparator"
ExpectedValue == "expected value, found block"
ExpectedBlock == "expected block, found value"
UnknownField == "unknown field"
MisplacedValue == "found loose value, expected only key ="
MisplacedBlock == "found sub-block, expected only key ="
MisplacedKey == "found key, expected only values"

\* ------------------------------------------------------------ the variables
VARIABLES
    block,            \* Validator.block: the block being validated
    known_fields,     \* Validator.known_fields, as the set of its elements
    accepted_tokens,  \* Validator.accepted_tokens
    accepted_blocks,  \* Validator.accepted_blocks
    diags,            \* diagnostics emitted by the most recent call, in order
    calls,            \* entries the most recent call invoked its handler on
    visited,          \* entries the most recent call's loop reached
    last,             \* the most recent call: method, name argument, result
    declared,         \* names given to a declaration since Validator::new
    block0,           \* the block as it was handed to the first Validator
    before            \* when the last two calls ran the same contract on fresh
                      \* Validators: the diagnostics of the first of the two

vdVars == <<block, known_fields, accepted_tokens, accepted_blocks,
            diags, calls, visited, last, declared, block0, before>>

VARIABLES
    game,             \* Game::game(): the game chosen at start-up
    features,         \* the cargo features the program was compiled with
    live,             \* ScopeContext: the scope types of the point being walked
    pending,          \* output of the link that was narrowed for, until applied
    sc_diags,         \* diagnostics emitted by the most recent scope operation
    sc_last           \* the most recent scope operation, its token and inputs

scVars == <<game, features, live, pending, sc_diags, sc_last>>

VARIABLES
    lists,            \* data.scripted_lists: each scripted list and its base
    lk                \* the lookup under way or last made: its function, its
                      \* arguments, the activations on the stack, its result

lkVars == <<lists, lk>>

VARIABLES
    cat,              \* the catalogs being loaded: the Triggers, the Doctrines
    cat_last          \* the most recent load_item: its catalog, its key, the
                      \* names defined in its block, the diagnostics it emitted

catVars == <<cat, cat_last>>

VARIABLES
    alg               \* the most recent operation on Scopes: its operands and
                      \* its result

algVars == <<alg>>

VARIABLES
    ev,               \* the Events catalog that the loader threads fill
    thr,              \* each loader thread: the call it is in, what it has
                      \* yet to emit and what it has emitted
    sink              \* the diagnostics sink: the reports of the entities
                      \* being loaded or last loaded, in order of arrival

snkVars == <<ev, thr, sink>>

VARIABLES
    events,           \* the Events catalog that handle_file fills
    hf                \* handle_file: the file being handled, the namespaces
                      \* and the state expecting of its loop, the definition
                      \* it reached last and the reports it then made

hfVars == <<events, hf>>

\* The variables the Validator's actions leave alone.
nonVdVars ==
    <<scVars, lkVars, catVars, algVars, snkVars, hfVars>>

\* The variables the chain walk leaves alone.
nonScVars ==
    <<vdVars, lkVars, catVars, algVars, snkVars, hfVars>>

\* The variables the lookups leave alone.
nonLkVars ==
    <<vdVars, live, pending, sc_diags, sc_last, catVars, algVars, snkVars,
      hfVars>>

\* The variables the loading of the catalogs leaves alone.
nonCatVars ==
    <<vdVars, scVars, lkVars, algVars, snkVars, hfVars>>

\* The variables the operations on Scopes leave alone.
nonAlgVars ==
    <<vdVars, live, pending, sc_diags, sc_last, lkVars, catVars, snkVars,
      hfVars>>

\* The variables the loader threads leave alone.
nonSnkVars ==
    <<vdVars, scVars, lkVars, catVars, algVars, hfVars>>

\* The variables the file handlers leave alone, the Triggers catalog apart.
nonHfVars == <<vdVars, scVars, lkVars, algVars, snkVars>>

vars == <<vdVars, nonVdVars>>

\* ------------------------------------------------- collaborators of Validator
\* Date::try_from(key).is_ok(): whether a key is a calendar date.
IsDate(key) == key = DateKey

\* str::parse::<i32>().is_ok() and str::parse::<f64>().is_ok() on the token
\* texts of the model.
ParsesI32(s) == s \in {"10"}
ParsesF64(s) == s \in {"10"}

\* The localization keys that exist (data.localization.verify_exists).
LocaKeys == {"yes"}
MissingLoca == "missing localization"

\* The `choices` argument client code gives field_choice.
Choices == <<"yes", "no">>
InvalidChoice == "expected one of the choices"

SeqRange(q) == {q[n] : n \in 1..Len(q)}

\* Indices of the top-level entries of b keyed `name`.
Matches(b, name) == {n \in 1..Len(b) : b[n].key # NoKey /\ b[n].key = name}

Max(S) == CHOOSE x \in S : \A y \in S : y <= x

\* The Option, bool and unit results of a method, in one shape.
RetUnit == [ok |-> TRUE, val |-> <<>>]
RetBool(x) == [ok |-> x, val |-> <<>>]
RetSome(v) == [ok |-> TRUE, val |-> <<v>>]
RetNone == [ok |-> FALSE, val |-> <<>>]

\* Block::get_field: the value of the last entry keyed `name`.
get_field(b, name) ==
    IF Matches(b, name) = {} THEN RetNone ELSE RetSome(b[Max(Matches(b, name))].val)

\* Block::get_field_value: the last scalar value keyed `name`.
get_field_value(b, name) ==
    LET toks == {n \in Matches(b, name) : b[n].val.kind = "token"}
    IN IF toks = {} THEN RetNone ELSE RetSome(b[Max(toks)].val)

\* Block::get_key: the key token of the last entry keyed `name`, as its index.
get_key(b, name) ==
    IF Matches(b, name) = {} THEN RetNone ELSE RetSome(Max(Matches(b, name)))

\* ------------------------------------------------------------ the Validator
\* Validator::new: a Validator over `b` that has claimed nothing yet.  The
\* fields diags, calls, visited and ret are the outputs of the call in
\* progress.
ValidatorNew(b) ==
    [block |-> b, known_fields |-> {}, accepted_tokens |-> FALSE,
     accepted_blocks |-> FALSE,
     diags |-> <<>>, calls |-> <<>>, visited |-> <<>>, ret |-> RetUnit]

\* The check of the inner block made by field_list's closure: entry j of the
\* sub-block at top-level entry i.
RECURSIVE field_list_inner(_, _, _)
field_list_inner(inner, i, j) ==
    IF j > Len(inner) THEN <<>>
    ELSE LET e == inner[j]
             d1 == IF e.key # NoKey
                   THEN <<warn(InnerKeyLoc(i, j), "Validation", MisplacedKey)>>
                   ELSE <<>>
             d2 == IF e.val.kind = "block"
                   THEN <<error(InnerValLoc(i, j), "Validation", ExpectedValue)>>
                   ELSE <<>>
         IN d1 \o d2 \o field_list_inner(inner, i, j + 1)

\* The closures the typed declarations pass to field_check, by the method that
\* builds them; the diagnostics one invocation on value v of entry i emits.
Closure(f, v, i) ==
    CASE f = "field" -> <<>>
      [] f = "field_value" ->
            IF v.kind = "block"
            THEN <<error(ValLoc(i), "Validation", ExpectedValue)>> ELSE <<>>
      [] f = "field_value_loca" ->
            IF v.kind = "block"
            THEN <<error(ValLoc(i), "Validation", ExpectedValue)>>
            ELSE IF v.s \in LocaKeys THEN <<>>
            ELSE <<error(ValLoc(i), "Localization", MissingLoca)>>
      [] f = "field_block" ->
            IF v.kind = "token"
            THEN <<error(ValLoc(i), "Validation", ExpectedBlock)>> ELSE <<>>
      [] f = "field_bool" ->
            IF v.kind = "block"
            THEN <<error(ValLoc(i), "Validation", ExpectedValue)>>
            ELSE IF v.s = "yes" \/ v.s = "no" THEN <<>>
            ELSE <<error(ValLoc(i), "Validation", "expected yes or no")>>
      [] f = "field_integer" ->
            IF v.kind = "block"
            THEN <<error(ValLoc(i), "Validation", ExpectedValue)>>
            ELSE IF ParsesI32(v.s) THEN <<>>
            ELSE <<error(ValLoc(i), "Validation", "expected integer")>>
      [] f = "field_float" ->
            IF v.kind = "block"
            THEN <<error(ValLoc(i), "Validation", ExpectedValue)>>
            ELSE IF ParsesF64(v.s) THEN <<>>
            ELSE <<error(ValLoc(i), "Validation", "expected number")>>
      [] f = "field_choice" ->
            IF v.kind = "block"
            THEN <<error(ValLoc(i), "Validation", ExpectedValue)>>
            ELSE IF v.s \in SeqRange(Choices) THEN <<>>
            ELSE <<error(ValLoc(i), "Validation", InvalidChoice)>>
      [] f = "field_list" ->
            IF v.kind = "token"
            THEN <<error(ValLoc(i), "Validation", ExpectedBlock)>>
            ELSE field_list_inner(v.v, i, 1)

\* field_check_loop with `found` set before the test for a second occurrence,
\* so that the first occurrence is reported as well.
RECURSIVE field_check_loop_found_early(_, _, _, _, _)
field_check_loop_found_early(b, name, f, i, acc) ==
    IF i > Len(b) THEN acc
    ELSE LET e == b[i]
             hit == e.key # NoKey /\ e.key = name
             d1 == IF hit
                   THEN <<warn(KeyLoc(i), "Duplicate", DuplicateField)>> ELSE <<>>
             d2 == IF hit /\ e.cmp # "="
                   THEN <<error(KeyLoc(i), "Validation", WrongComparator)>> ELSE <<>>
             d3 == IF hit THEN Closure(f, e.val, i) ELSE <<>>
         IN field_check_loop_found_early(b, name, f, i + 1,
                [found |-> acc.found \/ hit,
                 diags |-> acc.diags \o d1 \o d2 \o d3,
                 calls |-> IF hit THEN Append(acc.calls, i) ELSE acc.calls,
                 visited |-> Append(acc.visited, i)])

\* field_check_loop that gives up at the first diagnostic (fail-fast).
RECURSIVE field_check_loop_fail_fast(_, _, _, _, _)
field_check_loop_fail_fast(b, name, f, i, acc) ==
    IF i > Len(b) \/ acc.diags # <<>> THEN acc
    ELSE LET e == b[i]
             hit == e.key # NoKey /\ e.key = name
             d1 == IF hit /\ acc.found
                   THEN <<warn(KeyLoc(i), "Duplicate", DuplicateField)>> ELSE <<>>
             d2 == IF hit /\ e.cmp # "="
                   THEN <<error(KeyLoc(i), "Validation", WrongComparator)>> ELSE <<>>
             d3 == IF hit THEN Closure(f, e.val, i) ELSE <<>>
         IN field_check_loop_fail_fast(b, name, f, i + 1,
                [found |-> acc.found \/ hit,
                 diags |-> acc.diags \o d1 \o d2 \o d3,
                 calls |-> IF hit THEN Append(acc.calls, i) ELSE acc.calls,
                 visited |-> Append(acc.visited, i)])

\* The loop of field_check from entry i on; acc carries `found` and the
\* outputs so far.
RECURSIVE field_check_loop(_, _, _, _, _)
field_check_loop(b, name, f, i, acc) ==
    IF i > Len(b) THEN acc
    ELSE LET e == b[i]
             hit == e.key # NoKey /\ e.key = name
             d1 == IF hit /\ acc.found
                   THEN <<warn(KeyLoc(i), "Duplicate", DuplicateField)>> ELSE <<>>
             d2 == IF hit /\ e.cmp # "="
                   THEN <<error(KeyLoc(i), "Validation", WrongComparator)>> ELSE <<>>
             d3 == IF hit THEN Closure(f, e.val, i) ELSE <<>>
         IN field_check_loop(b, name, f, i + 1,
                [found |-> acc.found \/ hit,
                 diags |-> acc.diags \o d1 \o d2 \o d3,
                 calls |-> IF hit THEN Append(acc.calls, i) ELSE acc.calls,
                 visited |-> Append(acc.visited, i)])

\* The outputs a loop starts from: those the calls before it have made.
Acc(vd) == [found |-> FALSE, diags |-> vd.diags, calls |-> vd.calls,
            visited |-> vd.visited]

\* Validator::field_check(name, f).
field_check(vd, name, f) ==
    LET r == field_check_loop(vd.block, name, f, 1, Acc(vd))
    IN [vd EXCEPT !.known_fields = @ \cup {name},
                  !.diags = r.diags, !.calls = r.calls, !.visited = r.visited,
                  !.ret = RetBool(r.found)]

\* Validator::field(name).
field(vd, name) ==
    LET r == field_check(vd, name, "field")
    IN [r EXCEPT !.ret = IF r.ret.ok THEN get_field(vd.block, name) ELSE RetNone]

\* Validator::field_value(name).
field_value(vd, name) ==
    LET r == field_check(vd, name, "field_value")
    IN [r EXCEPT !.ret = IF r.ret.ok THEN get_field_value(vd.block, name) ELSE RetNone]

\* req_field that looks the field up as a scalar (field_value instead of
\* field), so that a block-valued field counts as missing.
req_field_by_value(vd, name) ==
    LET r == field_value(vd, name)
        found == r.ret.ok
    IN [r EXCEPT !.diags = IF ~found
                           THEN Append(@, error(BlockLoc, "Validation", MissingField))
                           ELSE @,
                 !.ret = RetBool(found)]

\* Validator::req_field(name).
req_field(vd, name) ==
    LET r == field(vd, name)
        found == r.ret.ok
    IN [r EXCEPT !.diags = IF ~found
                           THEN Append(@, error(BlockLoc, "Validation", MissingField))
                           ELSE @,
                 !.ret = RetBool(found)]


\* Validator::field_value_loca(name).
field_value_loca(vd, name) ==
    [field_check(vd, name, "field_value_loca") EXCEPT !.ret = RetUnit]

field_block(vd, name) == field_check(vd, name, "field_block")
field_bool(vd, name) == field_check(vd, name, "field_bool")
field_integer(vd, name) == field_check(vd, name, "field_integer")
field_float(vd, name) == field_check(vd, name, "field_float")

\* field_choice that does not compare the scalar with the choices.
field_choice_unchecked(vd, name) == field_check(vd, name, "field_value")

field_choice(vd, name) == field_check(vd, name, "field_choice")

\* field_list that does not look inside the block.
field_list_unopened(vd, name) == field_check(vd, name, "field_block")

field_list(vd, name) == field_check(vd, name, "field_list")

\* MatchBody in which field_blocks, like fields, does not look at the value.
MatchBody_blocks_unchecked(m, v, i) ==
    CASE m = "field_values" ->
            [diags |-> IF v.kind = "block"
                       THEN <<error(ValLoc(i), "Validation", ExpectedValue)>>
                       ELSE <<>>,
             call |-> FALSE,
             vec |-> IF v.kind = "token" THEN <<v>> ELSE <<>>]
      [] m \in {"fields", "field_blocks"} ->
            [diags |-> <<>>, call |-> FALSE, vec |-> <<>>]
      [] m = "field_validated" ->
            [diags |-> <<>>, call |-> TRUE, vec |-> <<>>]
      [] m \in {"field_validated_blocks", "field_validated_block"} ->
            [diags |-> IF v.kind = "token"
                       THEN <<error(ValLoc(i), "Validation", ExpectedBlock)>>
                       ELSE <<>>,
             call |-> v.kind = "block",
             vec |-> <<>>]

\* What the loops of field_values, fields, field_validated,
\* field_validated_blocks, field_validated_block and field_blocks do with the
\* value of a matched entry i, by method m: the diagnostics, whether the
\* caller's handler f is invoked, and the token pushed to the result vector.
MatchBody(m, v, i) ==
    CASE m = "field_values" ->
            [diags |-> IF v.kind = "block"
                       THEN <<error(ValLoc(i), "Validation", ExpectedValue)>>
                       ELSE <<>>,
             call |-> FALSE,
             vec |-> IF v.kind = "token" THEN <<v>> ELSE <<>>]
      [] m = "fields" ->
            [diags |-> <<>>, call |-> FALSE, vec |-> <<>>]
      [] m = "field_validated" ->
            [diags |-> <<>>, call |-> TRUE, vec |-> <<>>]
      [] m \in {"field_validated_blocks", "field_validated_block"} ->
            [diags |-> IF v.kind = "token"
                       THEN <<error(ValLoc(i), "Validation", ExpectedBlock)>>
                       ELSE <<>>,
             call |-> v.kind = "block",
             vec |-> <<>>]
      [] m = "field_blocks" ->
            [diags |-> IF v.kind = "token"
                       THEN <<error(ValLoc(i), "Validation", ExpectedBlock)>>
                       ELSE <<>>,
             call |-> FALSE, vec |-> <<>>]

\* match_loop that reports a wrong comparator and then skips the entry.
RECURSIVE match_loop_skip_wrong_cmp(_, _, _, _, _)
match_loop_skip_wrong_cmp(b, name, m, i, acc) ==
    IF i > Len(b) THEN acc
    ELSE LET e == b[i]
             hit == e.key # NoKey /\ e.key = name
             d1 == IF hit /\ acc.found /\ m = "field_validated_block"
                   THEN <<warn(KeyLoc(i), "Duplicate", DuplicateField)>> ELSE <<>>
             d2 == IF hit /\ e.cmp # "="
                   THEN <<error(KeyLoc(i), "Validation", WrongComparator)>> ELSE <<>>
             body == IF e.cmp # "="
                     THEN [diags |-> <<>>, call |-> FALSE, vec |-> <<>>]
                     ELSE MatchBody(m, e.val, i)
         IN match_loop_skip_wrong_cmp(b, name, m, i + 1,
                [found |-> acc.found \/ hit,
                 diags |-> IF hit THEN acc.diags \o d1 \o d2 \o body.diags
                           ELSE acc.diags,
                 calls |-> IF hit /\ body.call THEN Append(acc.calls, i)
                           ELSE acc.calls,
                 visited |-> Append(acc.visited, i),
                 vec |-> IF hit THEN acc.vec \o body.vec ELSE acc.vec])

\* The loop of method m over the entries keyed `name`, from entry i on; only
\* field_validated_block warns about a second occurrence.
RECURSIVE match_loop(_, _, _, _, _)
match_loop(b, name, m, i, acc) ==
    IF i > Len(b) THEN acc
    ELSE LET e == b[i]
             hit == e.key # NoKey /\ e.key = name
             d1 == IF hit /\ acc.found /\ m = "field_validated_block"
                   THEN <<warn(KeyLoc(i), "Duplicate", DuplicateField)>> ELSE <<>>
             d2 == IF hit /\ e.cmp # "="
                   THEN <<error(KeyLoc(i), "Validation", WrongComparator)>> ELSE <<>>
             body == MatchBody(m, e.val, i)
         IN match_loop(b, name, m, i + 1,
                [found |-> acc.found \/ hit,
                 diags |-> IF hit THEN acc.diags \o d1 \o d2 \o body.diags
                           ELSE acc.diags,
                 calls |-> IF hit /\ body.call THEN Append(acc.calls, i)
                           ELSE acc.calls,
                 visited |-> Append(acc.visited, i),
                 vec |-> IF hit THEN acc.vec \o body.vec ELSE acc.vec])

AccVec(vd) == [found |-> FALSE, diags |-> vd.diags, calls |-> vd.calls,
               visited |-> vd.visited, vec |-> <<>>]

Matched(vd, name, m) ==
    LET r == match_loop(vd.block, name, m, 1, AccVec(vd))
    IN [vd EXCEPT !.known_fields = @ \cup {name},
                  !.diags = r.diags, !.calls = r.calls, !.visited = r.visited,
                  !.ret = IF m = "field_values"
                          THEN [ok |-> TRUE, val |-> r.vec]
                          ELSE RetBool(r.found)]

field_values(vd, name) == Matched(vd, name, "field_values")
fields(vd, name) == Matched(vd, name, "fields")
field_validated(vd, name) == Matched(vd, name, "field_validated")
field_validated_blocks(vd, name) == Matched(vd, name, "field_validated_blocks")
field_validated_block(vd, name) == Matched(vd, name, "field_validated_block")
field_blocks(vd, name) == Matched(vd, name, "field_blocks")

\* The loop of req_tokens_integers_exactly: acc.found counts the integers.
RECURSIVE req_tokens_loop(_, _, _)
req_tokens_loop(b, i, acc) ==
    IF i > Len(b) THEN acc
    ELSE LET e == b[i]
             tok == e.key = NoKey /\ e.val.kind = "token"
             int == tok /\ ParsesI32(e.val.s)
         IN req_tokens_loop(b, i + 1,
                [found |-> IF int THEN acc.found + 1 ELSE acc.found,
                 diags |-> IF tok /\ ~int
                           THEN Append(acc.diags,
                                    error(ValLoc(i), "Validation", "expected integer"))
                           ELSE acc.diags,
                 calls |-> acc.calls,
                 visited |-> Append(acc.visited, i)])

\* Validator::req_tokens_integers_exactly(expect).
req_tokens_integers_exactly(vd, expect) ==
    LET r == req_tokens_loop(vd.block, 1,
                 [found |-> 0, diags |-> vd.diags, calls |-> vd.calls,
                  visited |-> vd.visited])
    IN [vd EXCEPT !.accepted_tokens = TRUE,
                  !.diags = IF r.found # expect
                            THEN Append(r.diags,
                                     error(BlockLoc, "Validation", "expected n integers"))
                            ELSE r.diags,
                  !.calls = r.calls, !.visited = r.visited, !.ret = RetUnit]

\* advice_field that does not push the name to known_fields.
advice_field_unclaimed(vd, name) ==
    LET k == get_key(vd.block, name)
    IN [vd EXCEPT !.diags = IF k.ok
                            THEN Append(@, advice(KeyLoc(k.val[1]), "Unneeded", "advice"))
                            ELSE @,
                  !.ret = RetUnit]

\* Validator::advice_field(name, msg).
advice_field(vd, name) ==
    LET k == get_key(vd.block, name)
    IN [vd EXCEPT !.known_fields = @ \cup {name},
                  !.diags = IF k.ok
                            THEN Append(@, advice(KeyLoc(k.val[1]), "Unneeded", "advice"))
                            ELSE @,
                  !.ret = RetUnit]

\* The loop of validate_history_blocks; acc.known is known_fields.
RECURSIVE history_loop(_, _, _)
history_loop(b, i, acc) ==
    IF i > Len(b) THEN acc
    ELSE LET e == b[i]
             hit == e.key # NoKey /\ IsDate(e.key)
             d2 == IF e.cmp # "="
                   THEN <<error(KeyLoc(i), "Validation", WrongComparator)>> ELSE <<>>
             d3 == IF e.val.kind = "token"
                   THEN <<error(ValLoc(i), "Validation", ExpectedBlock)>> ELSE <<>>
         IN history_loop(b, i + 1,
                [known |-> IF hit THEN acc.known \cup {e.key} ELSE acc.known,
                 diags |-> IF hit THEN acc.diags \o d2 \o d3 ELSE acc.diags,
                 calls |-> IF hit /\ e.val.kind = "block" THEN Append(acc.calls, i)
                           ELSE acc.calls,
                 visited |-> Append(acc.visited, i)])

\* validate_history_blocks that leaves known_fields as it finds it.
validate_history_blocks_unclaimed(vd) ==
    LET r == history_loop(vd.block, 1,
                 [known |-> vd.known_fields, diags |-> vd.diags,
                  calls |-> vd.calls, visited |-> vd.visited])
    IN [vd EXCEPT !.diags = r.diags, !.calls = r.calls, !.visited = r.visited,
                  !.ret = RetUnit]

\* Validator::validate_history_blocks(f).
validate_history_blocks(vd) ==
    LET r == history_loop(vd.block, 1,
                 [known |-> vd.known_fields, diags |-> vd.diags,
                  calls |-> vd.calls, visited |-> vd.visited])
    IN [vd EXCEPT !.known_fields = r.known,
                  !.diags = r.diags, !.calls = r.calls, !.visited = r.visited,
                  !.ret = RetUnit]

\* Remaining with the loose sub-blocks tested against accepted_tokens.
Remaining_blocks_by_tokens(vd, e, i) ==
    IF e.key # NoKey
    THEN IF e.key \notin vd.known_fields
         THEN <<warn(KeyLoc(i), "Validation", UnknownField)>> ELSE <<>>
    ELSE IF e.val.kind = "token"
         THEN IF ~vd.accepted_tokens
              THEN <<warn(ValLoc(i), "Validation", MisplacedValue)>> ELSE <<>>
         ELSE IF ~vd.accepted_tokens
              THEN <<warn(ValLoc(i), "Validation", MisplacedBlock)>> ELSE <<>>

\* The diagnostic warn_remaining gives top-level entry e at index i, if any.
Remaining(vd, e, i) ==
    IF e.key # NoKey
    THEN IF e.key \notin vd.known_fields
         THEN <<warn(KeyLoc(i), "Validation", UnknownField)>> ELSE <<>>
    ELSE IF e.val.kind = "token"
         THEN IF ~vd.accepted_tokens
              THEN <<warn(ValLoc(i), "Validation", MisplacedValue)>> ELSE <<>>
         ELSE IF ~vd.accepted_blocks
              THEN <<warn(ValLoc(i), "Validation", MisplacedBlock)>> ELSE <<>>

RECURSIVE warn_remaining_loop(_, _, _)
warn_remaining_loop(vd, i, acc) ==
    IF i > Len(vd.block) THEN acc
    ELSE warn_remaining_loop(vd, i + 1,
             [diags |-> acc.diags \o Remaining(vd, vd.block[i], i),
              visited |-> Append(acc.visited, i)])

\* warn_remaining on a Validator that owns its block and consumes it, keeping
\* only the claimed entries.
warn_remaining_consuming(vd) ==
    LET r == warn_remaining_loop(vd, 1, [diags |-> vd.diags, visited |-> vd.visited])
    IN [vd EXCEPT !.block = SelectSeq(vd.block,
                                LAMBDA e : e.key # NoKey /\ e.key \in vd.known_fields),
                  !.diags = r.diags, !.visited = r.visited, !.ret = RetUnit]

\* Validator::warn_remaining().
warn_remaining(vd) ==
    LET r == warn_remaining_loop(vd, 1, [diags |-> vd.diags, visited |-> vd.visited])
    IN [vd EXCEPT !.diags = r.diags, !.visited = r.visited, !.ret = RetUnit]

\* Validator::field_numeric(name) of the Validator that the data modules of
\* Imperator use: a scalar that has to parse as a number, as field_float has it.
field_numeric(vd, name) == field_float(vd, name)

\* Loyalty::validate that requires `min` as well.
Loyalty_validate_min_required(b) ==
    LET vd0 == ValidatorNew(b)
        vd1 == req_field(vd0, "value")
        vd2 == req_field(vd1, "min")
        vd3 == field_numeric(vd2, "value")
        vd4 == field_numeric(vd3, "min")
        vd5 == field_numeric(vd4, "max")
        vd6 == field_numeric(vd5, "yearly_decay")
    IN field_numeric(vd6, "months")

\* Loyalty::validate(key, block, data).
Loyalty_validate(b) ==
    LET vd0 == ValidatorNew(b)
        vd1 == req_field(vd0, "value")
        vd2 == field_numeric(vd1, "value")
        vd3 == field_numeric(vd2, "min")
        vd4 == field_numeric(vd3, "max")
        vd5 == field_numeric(vd4, "yearly_decay")
    IN field_numeric(vd5, "months")

\* validate_triggered_animation(block, data): a client contract as the event
\* validators write them, from Validator::new to warn_remaining.
validate_triggered_animation(b) ==
    LET vd0 == ValidatorNew(b)
        vd1 == req_field(vd0, "trigger")
        vd2 == req_field(vd1, "animation")
        vd3 == field_block(vd2, "trigger")
        vd4 == field_value(vd3, "animation")
    IN warn_remaining(vd4)

\* --------------------------------------------------------- the state machine
\* The Validator as a method finds it, with the outputs of the call empty.
Cur ==
    [block |-> block, known_fields |-> known_fields,
     accepted_tokens |-> accepted_tokens, accepted_blocks |-> accepted_blocks,
     diags |-> <<>>, calls |-> <<>>, visited |-> <<>>, ret |-> RetUnit]

NoName == ""

NotTwice == [twice |-> FALSE, diags |-> <<>>]

\* The call `op` with name argument `name` leaves the Validator as r.
Apply(op, name, r, decl) ==
    /\ block' = r.block
    /\ known_fields' = r.known_fields
    /\ accepted_tokens' = r.accepted_tokens
    /\ accepted_blocks' = r.accepted_blocks
    /\ diags' = r.diags
    /\ calls' = r.calls
    /\ visited' = r.visited
    /\ last' = [op |-> op, name |-> name, ret |-> r.ret]
    /\ declared' = decl
    /\ before' = IF op = "validate_triggered_animation" /\ last.op = op
                 THEN [twice |-> TRUE, diags |-> diags]
                 ELSE NotTwice
    /\ UNCHANGED block0
    /\ UNCHANGED nonVdVars

VdInit ==
    /\ block \in Blocks
    /\ known_fields = {}
    /\ accepted_tokens = FALSE
    /\ accepted_blocks = FALSE
    /\ diags = <<>>
    /\ calls = <<>>
    /\ visited = <<>>
    /\ last = [op |-> "new", name |-> NoName, ret |-> RetUnit]
    /\ declared = {}
    /\ block0 = block
    /\ before = NotTwice

\* Validator::new over the same block: the block is validated again.
New == Apply("new", NoName, ValidatorNew(block), {})

Declare(op, name, r) == Apply(op, name, r, declared \cup {name})

ReqField == \E name \in Names : Declare("req_field", name, req_field(Cur, name))
Field == \E name \in Names : Declare("field", name, field(Cur, name))
FieldValue == \E name \in Names : Declare("field_value", name, field_value(Cur, name))
FieldValueLoca ==
    \E name \in Names : Declare("field_value_loca", name, field_value_loca(Cur, name))
FieldBlock == \E name \in Names : Declare("field_block", name, field_block(Cur, name))
FieldBool == \E name \in Names : Declare("field_bool", name, field_bool(Cur, name))
FieldInteger ==
    \E name \in Names : Declare("field_integer", name, field_integer(Cur, name))
FieldFloat == \E name \in Names : Declare("field_float", name, field_float(Cur, name))
FieldChoice == \E name \in Names : Declare("field_choice", name, field_choice(Cur, name))
FieldList == \E name \in Names : Declare("field_list", name, field_list(Cur, name))
FieldValues == \E name \in Names : Declare("field_values", name, field_values(Cur, name))
Fields == \E name \in Names : Declare("fields", name, fields(Cur, name))
FieldValidated ==
    \E name \in Names : Declare("field_validated", name, field_validated(Cur, name))
FieldValidatedBlocks ==
    \E name \in Names :
        Declare("field_validated_blocks", name, field_validated_blocks(Cur, name))
FieldValidatedBlock ==
    \E name \in Names :
        Declare("field_validated_block", name, field_validated_block(Cur, name))
FieldBlocks == \E name \in Names : Declare("field_blocks", name, field_blocks(Cur, name))
AdviceField == \E name \in Names : Declare("advice_field", name, advice_field(Cur, name))

\* The `expect` arguments of req_tokens_integers_exactly.
Expects == {0, 1}

ReqTokensIntegersExactly ==
    \E expect \in Expects :
        Apply("req_tokens_integers_exactly", NoName,
              req_tokens_integers_exactly(Cur, expect), declared)

ValidateHistoryBlocks ==
    Apply("validate_history_blocks", NoName, validate_history_blocks(Cur), declared)

WarnRemaining == Apply("warn_remaining", NoName, warn_remaining(Cur), declared)

ValidateTriggeredAnimation ==
    Apply("validate_triggered_animation", NoName,
          validate_triggered_animation(block), {"trigger", "animation"})

\* Blocks for the declarations of lists, of choices and of history: fields
\* whose value is a block of loose scalars only, of a labelled nested block,
\* of the three kinds of entry mixed; scalars in and out of the choices; dated
\* entries, and entries without a key.
InnerScalars == << Entry(NoKey, "=", Tok("yes")), Entry(NoKey, "=", Tok("10")) >>

InnerLabelledBlock == << Entry("k", "=", Blk(<<>>)) >>

DeclEntries ==
    { Entry("animation", "=", Tok("yes")),
      Entry("animation", "=", Tok("10")),
      Entry("animation", ">", Tok("no")),
      Entry("trigger", "=", Blk(InnerScalars)),
      Entry("trigger", "=", Blk(InnerLabelledBlock)),
      Entry("trigger", "=", Blk(InnerMixed)),
      Entry(DateKey, "=", Blk(<<>>)),
      Entry(DateKey, ">", Tok("10")),
      Entry(NoKey, "=", Tok("10")),
      Entry(NoKey, "=", Blk(<<>>)) }

DeclBlocks == SeqsUpTo(DeclEntries, MaxLen)

DeclInit ==
    /\ block \in DeclBlocks
    /\ known_fields = {}
    /\ accepted_tokens = FALSE
    /\ accepted_blocks = FALSE
    /\ diags = <<>>
    /\ calls = <<>>
    /\ visited = <<>>
    /\ last = [op |-> "new", name |-> NoName, ret |-> RetUnit]
    /\ declared = {}
    /\ block0 = block
    /\ before = NotTwice

\* The longest loyalty block.
MaxFields == 3

\* The fields a loyalty block is written with: a number, a word, a block.
LoyaltyEntries ==
    {Entry(k, c, v) : k \in {"value", "min", "max"}, c \in Cmps,
                      v \in {Tok("10"), Tok("abc"), Blk(<<>>)}}

LoyaltyBlocks == SeqsUpTo(LoyaltyEntries, MaxFields)

LoyInit ==
    /\ block \in LoyaltyBlocks
    /\ known_fields = {}
    /\ accepted_tokens = FALSE
    /\ accepted_blocks = FALSE
    /\ diags = <<>>
    /\ calls = <<>>
    /\ visited = <<>>
    /\ last = [op |-> "new", name |-> NoName, ret |-> RetUnit]
    /\ declared = {}
    /\ block0 = block
    /\ before = NotTwice

\* The database validates a loyalty item.
ValidateLoyalty ==
    Apply("Loyalty::validate", NoName, Loyalty_validate(block),
          {"value", "min", "max", "yearly_decay", "months"})

\* The validation of a loyalty item, and the sweep of the Validator over what
\* is left of the block.
LoyNext ==
    \/ ValidateLoyalty
    \/ WarnRemaining

DeclNext ==
    \/ New
    \/ FieldValue
    \/ FieldChoice
    \/ FieldList
    \/ FieldValues
    \/ ValidateHistoryBlocks
    \/ WarnRemaining

VdNext ==
    \/ New
    \/ ReqField
    \/ Field
    \/ FieldValue
    \/ FieldValueLoca
    \/ FieldBlock
    \/ FieldBool
    \/ FieldInteger
    \/ FieldFloat
    \/ FieldChoice
    \/ FieldList
    \/ FieldValues
    \/ Fields
    \/ FieldValidated
    \/ FieldValidatedBlocks
    \/ FieldValidatedBlock
    \/ FieldBlocks
    \/ AdviceField
    \/ ReqTokensIntegersExactly
    \/ ValidateHistoryBlocks
    \/ WarnRemaining
    \/ ValidateTriggeredAnimation

\* ------------------------------------------------------------------ Scopes
\* A Scopes value is modelled as the set of the bit positions set in its u64.
\* Of each game's vocabulary the model keeps the four universal flags, the
\* flags every game has, and the flags the links below go from and to.
Games == {"ck3", "vic3", "imperator"}

None == {0}
Value == {1}
Bool == {2}
Flag == {3}
Country == {5}
Character == {6}
Culture == {7}
Province == {8}
Doctrine == {30}
Faith == {34}
Building == {18}
BuildingType == {19}
CommanderOrder == {23}
CommanderOrderType == {24}
Institution == {37}
InstitutionType == {38}
InterestGroup == {40}
InterestGroupType == {42}
Law == {44}
LawType == {45}
CultureGroup == {18}
Unit == {30}

\* The flags the bitflags! block defines under the features fs.
CompiledFlags(fs) ==
    {None, Value, Bool, Flag, Character, Culture, Province}
    \cup (IF fs \cap {"vic3", "imperator"} # {} THEN {Country} ELSE {})
    \cup (IF "ck3" \in fs THEN {Doctrine, Faith} ELSE {})
    \cup (IF "vic3" \in fs
          THEN {Building, BuildingType, CommanderOrder, CommanderOrderType,
                Institution, InstitutionType, InterestGroup, InterestGroupType,
                Law, LawType}
          ELSE {})
    \cup (IF "imperator" \in fs THEN {CultureGroup, Unit} ELSE {})

\* Scopes::all(): every bit of every flag that was compiled in.
Scopes_all == UNION CompiledFlags(features)

Scopes_empty == {}

\* Scopes::non_primitive() taking away primitive(), which leaves None in.
non_primitive_less_primitive == Scopes_all \ (Value \cup Bool \cup Flag)

\* Scopes::non_primitive().
non_primitive == Scopes_all \ (None \cup Value \cup Bool \cup Flag)

\* Scopes::primitive().
primitive == Value \cup Bool \cup Flag

\* Scopes::all_but_none().
all_but_none == Scopes_all \ None

\* ------------------------------------------------ collaborators of the lookups
\* The tokens a script may put in a chain.
LinkNames ==
    {"culture", "Culture", "faith", "faith_doctrine", "type",
     "activity_province", "bogus"}

\* str::to_lowercase on the tokens above.
to_lowercase(s) ==
    CASE s = "Culture" -> "culture"
      [] s = "Character" -> "character"
      [] s = "Child" -> "child"
      [] OTHER -> s

Link(from, s, to) == [from |-> from, s |-> s, to |-> to]

\* The link tables of the games' scopes modules: a few entries of each.
SCOPE_TO_SCOPE ==
    CASE game = "ck3" ->
            <<Link(Character, "culture", Culture),
              Link(Character, "faith", Faith),
              Link(Culture \cup Faith, "faith_doctrine", Doctrine)>>
      [] game = "vic3" ->
            <<Link(Character \cup Country, "culture", Culture),
              Link(Building \cup CommanderOrder \cup Institution
                       \cup InterestGroup \cup Law,
                   "type",
                   BuildingType \cup CommanderOrderType \cup InstitutionType
                       \cup InterestGroupType \cup LawType)>>
      [] game = "imperator" ->
            <<Link(Character \cup Country \cup Province, "culture", Culture)>>

\* The tables of removed links: (name, version, explanation), the name kept.
SCOPE_TO_SCOPE_REMOVED ==
    IF game = "ck3" THEN <<"activity_province">> ELSE <<>>

\* A diagnostic of the scope checks; req and actual are the two sets a
\* scope mismatch cites.
ScDiag(key, tok, req, actual) ==
    [sev |-> "error", key |-> key, loc |-> tok, req |-> req, actual |-> actual]

\* ------------------------------------------------------------ the lookups
\* scope_to_scope_find with the Institution case of `type` giving the type of
\* the case below it.
RECURSIVE scope_to_scope_find_type_slip(_, _, _)
scope_to_scope_find_type_slip(name_lc, inscopes, i) ==
    IF i > Len(SCOPE_TO_SCOPE) THEN RetNone
    ELSE LET e == SCOPE_TO_SCOPE[i]
             outscopes ==
                 (IF Building \subseteq inscopes THEN BuildingType ELSE {})
                 \cup (IF CommanderOrder \subseteq inscopes
                       THEN CommanderOrderType ELSE {})
                 \cup (IF Institution \subseteq inscopes
                       THEN InterestGroupType ELSE {})
                 \cup (IF InterestGroup \subseteq inscopes
                       THEN InterestGroupType ELSE {})
                 \cup (IF Law \subseteq inscopes THEN LawType ELSE {})
         IN IF name_lc = e.s
            THEN IF "vic3" \in features /\ game = "vic3" /\ e.s = "type"
                    /\ outscopes # Scopes_empty
                 THEN RetSome(<<e.from, outscopes>>)
                 ELSE RetSome(<<e.from, e.to>>)
            ELSE scope_to_scope_find_type_slip(name_lc, inscopes, i + 1)

\* The first loop of scope_to_scope, from table entry i on.
RECURSIVE scope_to_scope_find(_, _, _)
scope_to_scope_find(name_lc, inscopes, i) ==
    IF i > Len(SCOPE_TO_SCOPE) THEN RetNone
    ELSE LET e == SCOPE_TO_SCOPE[i]
             outscopes ==
                 (IF Building \subseteq inscopes THEN BuildingType ELSE {})
                 \cup (IF CommanderOrder \subseteq inscopes
                       THEN CommanderOrderType ELSE {})
                 \cup (IF Institution \subseteq inscopes
                       THEN InstitutionType ELSE {})
                 \cup (IF InterestGroup \subseteq inscopes
                       THEN InterestGroupType ELSE {})
                 \cup (IF Law \subseteq inscopes THEN LawType ELSE {})
         IN IF name_lc = e.s
            THEN IF "vic3" \in features /\ game = "vic3" /\ e.s = "type"
                    /\ outscopes # Scopes_empty
                 THEN RetSome(<<e.from, outscopes>>)
                 ELSE RetSome(<<e.from, e.to>>)
            ELSE scope_to_scope_find(name_lc, inscopes, i + 1)

\* scope_to_scope with the two components of the pair exchanged.
scope_to_scope_swapped(name, inscopes) ==
    LET name_lc == to_lowercase(name)
        hit == scope_to_scope_find(name_lc, inscopes, 1)
    IN IF hit.ok
       THEN [ret |-> RetSome(<<hit.val[1][2], hit.val[1][1]>>), diags |-> <<>>]
       ELSE IF \E i \in 1..Len(SCOPE_TO_SCOPE_REMOVED) :
                   name_lc = SCOPE_TO_SCOPE_REMOVED[i]
            THEN [ret |-> RetSome(<<all_but_none, Scopes_all>>),
                  diags |-> <<ScDiag("Removed", name, {}, {})>>]
            ELSE [ret |-> RetNone, diags |-> <<>>]

\* scope_to_scope returning, for a removed name, every scope type as output too.
scope_to_scope_removed_all(name, inscopes) ==
    LET name_lc == to_lowercase(name)
        hit == scope_to_scope_find(name_lc, inscopes, 1)
    IN IF hit.ok
       THEN [ret |-> hit, diags |-> <<>>]
       ELSE IF \E i \in 1..Len(SCOPE_TO_SCOPE_REMOVED) :
                   name_lc = SCOPE_TO_SCOPE_REMOVED[i]
            THEN [ret |-> RetSome(<<Scopes_all, Scopes_all>>),
                  diags |-> <<ScDiag("Removed", name, {}, {})>>]
            ELSE [ret |-> RetNone, diags |-> <<>>]

\* scope_to_scope(name, inscopes): the Option of the pair, and what it reports.
scope_to_scope(name, inscopes) ==
    LET name_lc == to_lowercase(name)
        hit == scope_to_scope_find(name_lc, inscopes, 1)
    IN IF hit.ok
       THEN [ret |-> hit, diags |-> <<>>]
       ELSE IF \E i \in 1..Len(SCOPE_TO_SCOPE_REMOVED) :
                   name_lc = SCOPE_TO_SCOPE_REMOVED[i]
            THEN [ret |-> RetSome(<<Scopes_all, all_but_none>>),
                  diags |-> <<ScDiag("Removed", name, {}, {})>>]
            ELSE [ret |-> RetNone, diags |-> <<>>]

\* ------------------------------------- collaborators of the other lookups
\* The prefixes and iterator names a script may use.
PrefixNames == {"character", "Character", "faith", "c", "bogus"}

ListNames == {"my_list", "other_list"}

IterNames == {"child", "Child", "participant", "bogus"} \cup ListNames

\* The prefix tables of the games' scopes modules: a few entries of each.
SCOPE_FROM_PREFIX ==
    CASE game = "ck3" ->
            <<Link(None, "character", Character), Link(None, "faith", Faith)>>
      [] game = "vic3" ->
            <<Link(None, "c", Country), Link(Country, "faith", Culture)>>
      [] game = "imperator" ->
            <<Link(None, "character", Character), Link(None, "c", Country)>>

\* The iterator tables of the games' scopes modules: a few entries of each.
SCOPE_ITERATOR ==
    CASE game = "ck3" ->
            <<Link(Character, "child", Character)>>
      [] game = "vic3" ->
            <<Link(Country, "child", Building)>>
      [] game = "imperator" ->
            <<Link(Country \cup Character, "child", Character),
              Link(Country, "participant", Unit)>>

\* The tables of removed iterators: (name, version, explanation), the name kept.
SCOPE_REMOVED_ITERATOR ==
    IF game = "ck3" THEN <<"participant">> ELSE <<>>

\* A scripted list without a `base` field.
NoBase == "<no base>"

\* A name that data.scripted_lists does not hold.
NoList == "<no list>"

\* data.scripted_lists.exists(name).
scripted_lists_exists(name) == name \in DOMAIN lists /\ lists[name] # NoList

\* data.scripted_lists.base(name): the Option of the base token.
scripted_lists_base(name) ==
    IF lists[name] = NoBase THEN RetNone ELSE RetSome(lists[name])

\* ------------------------------------------------------ the other lookups
\* The loop of scope_prefix, from table entry i on.
RECURSIVE scope_prefix_find(_, _)
scope_prefix_find(prefix_lc, i) ==
    IF i > Len(SCOPE_FROM_PREFIX) THEN RetNone
    ELSE IF prefix_lc = SCOPE_FROM_PREFIX[i].s
         THEN RetSome(<<SCOPE_FROM_PREFIX[i].from, SCOPE_FROM_PREFIX[i].to>>)
         ELSE scope_prefix_find(prefix_lc, i + 1)

\* scope_prefix that answers an unknown prefix with a permissive pair.
scope_prefix_permissive(prefix) ==
    LET hit == scope_prefix_find(to_lowercase(prefix), 1)
    IN [ret |-> IF hit.ok THEN hit ELSE RetSome(<<None, Scopes_all>>),
        diags |-> <<>>]

\* scope_prefix(prefix).
scope_prefix(prefix) ==
    [ret |-> scope_prefix_find(to_lowercase(prefix), 1), diags |-> <<>>]

\* The first loop of scope_iterator, from table entry i on.
RECURSIVE scope_iterator_find(_, _)
scope_iterator_find(name_lc, i) ==
    IF i > Len(SCOPE_ITERATOR) THEN RetNone
    ELSE IF name_lc = SCOPE_ITERATOR[i].s
         THEN RetSome(<<SCOPE_ITERATOR[i].from, SCOPE_ITERATOR[i].to>>)
         ELSE scope_iterator_find(name_lc, i + 1)

\* scope_iterator that reports nothing for a removed iterator.
scope_iterator_removed_silent(name) ==
    LET name_lc == to_lowercase(name)
        hit == scope_iterator_find(name_lc, 1)
        base == scripted_lists_base(name)
        Ret(r, ds, cs) ==
            [returns |-> TRUE, ret |-> r, next |-> "", diags |-> ds, calls |-> cs]
    IN IF hit.ok THEN Ret(hit, <<>>, <<>>)
       ELSE IF \E i \in 1..Len(SCOPE_REMOVED_ITERATOR) :
                   name_lc = SCOPE_REMOVED_ITERATOR[i]
       THEN Ret(RetSome(<<Scopes_all, Scopes_all>>), <<>>, <<>>)
       ELSE IF scripted_lists_exists(name)
       THEN IF base.ok
            THEN [returns |-> FALSE, ret |-> RetNone, next |-> base.val[1],
                  diags |-> <<>>, calls |-> <<name>>]
            ELSE Ret(RetNone, <<>>, <<name>>)
       ELSE Ret(RetNone, <<>>, <<>>)

\* scope_iterator that looks in the scripted lists before the tables.
scope_iterator_lists_first(name) ==
    LET name_lc == to_lowercase(name)
        hit == scope_iterator_find(name_lc, 1)
        base == scripted_lists_base(name)
        Ret(r, ds, cs) ==
            [returns |-> TRUE, ret |-> r, next |-> "", diags |-> ds, calls |-> cs]
    IN IF scripted_lists_exists(name)
       THEN IF base.ok
            THEN [returns |-> FALSE, ret |-> RetNone, next |-> base.val[1],
                  diags |-> <<>>, calls |-> <<name>>]
            ELSE Ret(RetNone, <<>>, <<name>>)
       ELSE IF hit.ok THEN Ret(hit, <<>>, <<>>)
       ELSE IF \E i \in 1..Len(SCOPE_REMOVED_ITERATOR) :
                   name_lc = SCOPE_REMOVED_ITERATOR[i]
       THEN Ret(RetSome(<<Scopes_all, Scopes_all>>),
                <<ScDiag("Removed", name, {}, {})>>, <<>>)
       ELSE Ret(RetNone, <<>>, <<>>)

\* One activation of scope_iterator(name, data, sc): either it returns (ret),
\* or it calls itself on the base of the scripted list `name` (next), with the
\* diagnostics it emitted and the scripted lists it called validate_call on.
scope_iterator(name) ==
    LET name_lc == to_lowercase(name)
        hit == scope_iterator_find(name_lc, 1)
        base == scripted_lists_base(name)
        Ret(r, ds, cs) ==
            [returns |-> TRUE, ret |-> r, next |-> "", diags |-> ds, calls |-> cs]
    IN IF hit.ok THEN Ret(hit, <<>>, <<>>)
       ELSE IF \E i \in 1..Len(SCOPE_REMOVED_ITERATOR) :
                   name_lc = SCOPE_REMOVED_ITERATOR[i]
       THEN Ret(RetSome(<<Scopes_all, Scopes_all>>),
                <<ScDiag("Removed", name, {}, {})>>, <<>>)
       ELSE IF scripted_lists_exists(name)
       THEN IF base.ok
            THEN [returns |-> FALSE, ret |-> RetNone, next |-> base.val[1],
                  diags |-> <<>>, calls |-> <<name>>]
            ELSE Ret(RetNone, <<>>, <<name>>)
       ELSE Ret(RetNone, <<>>, <<>>)

\* ------------------------------------------------------------ ScopeContext
\* ScopeContext::new_root(scope, anchor): only the implicit scope, typed scope.
new_root(scope) == scope

\* ScopeContext::narrow(acceptedInput, tokenName) on the live set L.
narrow(L, acceptedInput, tokenName) ==
    IF L = Scopes_all
    THEN [live |-> acceptedInput, diags |-> <<>>]
    ELSE IF L \cap acceptedInput = {}
         THEN [live |-> L,
               diags |-> <<ScDiag("Scopes", tokenName, acceptedInput, L)>>]
         ELSE [live |-> L \cap acceptedInput, diags |-> <<>>]

\* ScopeContext::apply(outputSet).
apply(outputSet) == outputSet

\* ------------------------------------------------ the scope state machine
NoPending == RetNone

\* The root scopes the entities' validators seed a ScopeContext with.
Roots ==
    {None, Character, Culture, Character \cup Province, Scopes_all}
    \cup (IF game = "ck3" THEN {Faith} ELSE {})
    \cup (IF game = "vic3" THEN {Building \cup Law, Country} ELSE {})
    \cup (IF game = "imperator" THEN {Country \cup Unit} ELSE {})

ScInit ==
    /\ game \in Games
    /\ features \in {fs \in SUBSET Games : game \in fs}
    /\ live = new_root(Character)
    /\ pending = NoPending
    /\ sc_diags = <<>>
    /\ sc_last = [op |-> "new_root", token |-> "", L |-> {}, ret |-> RetNone]

\* A validator starts on an expression: a fresh ScopeContext.
NewRoot ==
    \E scope \in Roots :
        /\ live' = new_root(scope)
        /\ pending' = NoPending
        /\ sc_diags' = <<>>
        /\ sc_last' = [op |-> "new_root", token |-> "", L |-> live, ret |-> RetNone]
        /\ UNCHANGED <<game, features>>
        /\ UNCHANGED nonScVars

\* What the walk puts in place of a link's output when the link is not found
\* or does not accept the live scope types: anything.
Fallback == Scopes_all

\* One link of a chain, on the live set L: the lookup, the narrowing, and the
\* set the walk goes on with (out).
walk_link(L, token) ==
    LET r == scope_to_scope(token, L)
        n == narrow(L, r.ret.val[1][1], token)
    IN IF ~r.ret.ok
       THEN [ret |-> r.ret, live |-> L, out |-> Fallback,
             diags |-> r.diags \o <<ScDiag("UnknownToken", token, {}, {})>>]
       ELSE [ret |-> r.ret, live |-> n.live,
             out |-> IF n.diags # <<>> THEN Fallback ELSE r.ret.val[1][2],
             diags |-> r.diags \o n.diags]

\* The walk of the links of chain from link i on, left to right; acc.seen
\* keeps the live set each link was looked up in.
RECURSIVE walk_chain(_, _, _)
walk_chain(chain, i, acc) ==
    IF i > Len(chain) THEN acc
    ELSE LET w == walk_link(acc.live, chain[i])
         IN walk_chain(chain, i + 1,
                [live |-> apply(w.out),
                 diags |-> acc.diags \o w.diags,
                 seen |-> Append(acc.seen, acc.live)])

\* The walk reaches the link `token`: it is looked up in the live context and
\* the context is narrowed to what the link accepts.
Narrow ==
    \E token \in LinkNames :
        LET w == walk_link(live, token)
        IN /\ ~pending.ok
           /\ live' = w.live
           /\ pending' = RetSome(w.out)
           /\ sc_diags' = w.diags
           /\ sc_last' = [op |-> "narrow", token |-> token, L |-> live,
                          ret |-> w.ret]
           /\ UNCHANGED <<game, features>>
           /\ UNCHANGED nonScVars

\* The walk passes the link: the context takes the link's output.
ApplyOutput ==
    /\ pending.ok
    /\ live' = apply(pending.val[1])
    /\ pending' = NoPending
    /\ sc_diags' = <<>>
    /\ sc_last' = [op |-> "apply", token |-> sc_last.token, L |-> live,
                   ret |-> RetNone]
    /\ UNCHANGED <<game, features>>
    /\ UNCHANGED nonScVars

\* The chains of the scripts.
Chains ==
    {<<"culture", "faith_doctrine">>, <<"faith", "faith_doctrine">>,
     <<"bogus", "culture">>, <<"activity_province", "faith">>,
     <<"type", "culture">>}

\* A chain of an expression is walked from a root, first link to last.
WalkChain ==
    \E scope \in Roots, chain \in Chains :
        LET w == walk_chain(chain, 1,
                     [live |-> new_root(scope), diags |-> <<>>, seen |-> <<>>])
        IN /\ live' = w.live
           /\ pending' = NoPending
           /\ sc_diags' = w.diags
           /\ sc_last' = [op |-> "walk", token |-> "", L |-> scope,
                          ret |-> RetSome(<<chain, w.seen>>)]
           /\ UNCHANGED <<game, features>>
           /\ UNCHANGED nonScVars

ScNext ==
    \/ NewRoot
    \/ Narrow
    \/ ApplyOutput
    \/ WalkChain

\* The scope variables while only a Validator runs.
ScIdle ==
    /\ game = "ck3"
    /\ features = {"ck3"}
    /\ live = new_root(Character)
    /\ pending = NoPending
    /\ sc_diags = <<>>
    /\ sc_last = [op |-> "new_root", token |-> "", L |-> {}, ret |-> RetNone]

\* The Validator variables while only the scope checks run.
VdIdle ==
    /\ block = <<>>
    /\ known_fields = {}
    /\ accepted_tokens = FALSE
    /\ accepted_blocks = FALSE
    /\ diags = <<>>
    /\ calls = <<>>
    /\ visited = <<>>
    /\ last = [op |-> "new", name |-> NoName, ret |-> RetUnit]
    /\ declared = {}
    /\ block0 = block
    /\ before = NotTwice

\* ------------------------------------------------ the lookups' state machine
\* The deepest stack of activations the process has room for.
MaxDepth == 4

\* The scope sets a caller may hold when it looks a link up.
LiveSets ==
    {Character, Scopes_all}
    \cup (IF game = "vic3"
          THEN {Building, Law \cup Institution, CommanderOrder,
                InterestGroup \cup Character}
          ELSE {})

NoLookup ==
    [fn |-> "none", name |-> "", inscopes |-> {}, pc |-> "done", cur |-> "",
     depth |-> 0, ret |-> RetNone, diags |-> <<>>, calls |-> <<>>]

\* The tokens the scripted lists of the mod give as their base.
Bases == {"child", "participant", "bogus"} \cup ListNames

\* The scripted lists of the mod: each name either is no list, or is a list
\* without base, or is a list with a base.
LkInit ==
    /\ lists \in [ListNames -> {NoList, NoBase} \cup Bases]
    /\ lk = NoLookup

\* scope_to_scope(token, inscopes) is called.
LookupLink ==
    \E token \in LinkNames, inscopes \in LiveSets :
        LET r == scope_to_scope(token, inscopes)
        IN /\ lk.pc = "done"
           /\ lk' = [NoLookup EXCEPT !.fn = "scope_to_scope", !.name = token,
                                     !.inscopes = inscopes, !.ret = r.ret,
                                     !.diags = r.diags]
           /\ UNCHANGED <<lists, game, features>>
           /\ UNCHANGED nonLkVars

\* scope_prefix(prefix) is called.
LookupPrefix ==
    \E prefix \in PrefixNames :
        LET r == scope_prefix(prefix)
        IN /\ lk.pc = "done"
           /\ lk' = [NoLookup EXCEPT !.fn = "scope_prefix", !.name = prefix,
                                     !.ret = r.ret, !.diags = r.diags]
           /\ UNCHANGED <<lists, game, features>>
           /\ UNCHANGED nonLkVars

\* scope_iterator(name, data, sc) is called: its first activation is entered.
LookupIterator ==
    \E name \in IterNames :
        /\ lk.pc = "done"
        /\ lk' = [NoLookup EXCEPT !.fn = "scope_iterator", !.name = name,
                                  !.pc = "run", !.cur = name, !.depth = 1]
        /\ UNCHANGED <<lists, game, features>>
        /\ UNCHANGED nonLkVars

\* The innermost activation of scope_iterator runs: it returns, and with it
\* every activation below it, or it calls scope_iterator on the base. A call
\* that finds the stack full ends the process.
IteratorStep ==
    LET a == scope_iterator(lk.cur)
    IN /\ lk.pc = "run"
       /\ lk' = [lk EXCEPT
                    !.pc = IF a.returns THEN "done"
                           ELSE IF lk.depth = MaxDepth THEN "overflow"
                           ELSE "run",
                    !.cur = IF a.returns THEN @ ELSE a.next,
                    !.depth = IF a.returns \/ lk.depth = MaxDepth THEN @ ELSE @ + 1,
                    !.ret = a.ret,
                    !.diags = @ \o a.diags,
                    !.calls = @ \o a.calls]
       /\ UNCHANGED <<lists, game, features>>
       /\ UNCHANGED nonLkVars

\* A mod whose scripted lists take names that the games' tables hold too.
NamedLists == {"my_list", "child", "participant"}

NamedBases == {"child", "Child", "participant", "bogus", "my_list"}

ItInit ==
    /\ lists \in [NamedLists -> {NoList, NoBase} \cup NamedBases]
    /\ lk = NoLookup

ItNext ==
    \/ LookupIterator
    \/ IteratorStep

LkNext ==
    \/ LookupLink
    \/ LookupPrefix
    \/ LookupIterator
    \/ IteratorStep

\* The lookups' variables while none is made.
LkIdle ==
    /\ lists = [n \in ListNames |-> NoList]
    /\ lk = NoLookup

\* ------------------------------------------------------------ the catalogs
\* FileKind: where a file comes from.  Its variants compare in the order of
\* their declaration, the base game below the mod.
FileKinds == {"VanillaFile", "ModFile"}

kind_rank(kind) == IF kind = "VanillaFile" THEN 0 ELSE 1

\* other.kind >= kind, on FileKind.
kind_ge(other, kind) == kind_rank(other) >= kind_rank(kind)

\* A Token of a file: its text and the kind of file it stands in.
KeyTok(s, kind) == [s |-> s, kind |-> kind]

info(loc, key, msg) == Diag("info", key, msg, loc)

\* helpers::dup_error: the Duplicate error on the new key, then the pointer to
\* the definition it collides with.
dup_error(key, other, id) ==
    <<error(key, "Duplicate", id), info(other, "Duplicate", id)>>

\* A FnvHashMap, as the function from the keys it holds to their values.
EmptyMap == [k \in {} |-> {}]
contains_key(m, k) == k \in DOMAIN m
insert(m, k, v) == [x \in DOMAIN m \cup {k} |-> IF x = k THEN v ELSE m[x]]

\* Triggers::default() and Doctrines::default().
TriggersDefault == [triggers |-> EmptyMap]
DoctrinesDefault == [groups |-> EmptyMap, doctrines |-> EmptyMap, parameters |-> {}]

\* Triggers::load_item keeping the stored definition when it reports the new
\* one as a duplicate.
Triggers_load_item_keeps_first(self, key) ==
    LET dup == IF contains_key(self.triggers, key.s)
                  /\ kind_ge(self.triggers[key.s].key.kind, key.kind)
               THEN dup_error(key, self.triggers[key.s].key, "scripted trigger")
               ELSE <<>>
    IN [self |-> IF dup = <<>>
                 THEN [self EXCEPT !.triggers = insert(@, key.s, [key |-> key])]
                 ELSE self,
        diags |-> dup]

\* Triggers::load_item.
Triggers_load_item(self, key) ==
    LET dup == IF contains_key(self.triggers, key.s)
                  /\ kind_ge(self.triggers[key.s].key.kind, key.kind)
               THEN dup_error(key, self.triggers[key.s].key, "scripted trigger")
               ELSE <<>>
    IN [self |-> [self EXCEPT !.triggers = insert(@, key.s, [key |-> key])],
        diags |-> dup]

\* The body of a definition inside a doctrine group: its parameters block, if
\* it has one, as the assignments the block holds.
Assign(k, v) == [k |-> k, v |-> v]
NoParameters == RetNone
Parameters(b) == RetSome(b)

\* The boolean parameters among the assignments b[i..].
RECURSIVE boolean_parameters(_, _, _)
boolean_parameters(b, i, acc) ==
    IF i > Len(b) THEN acc
    ELSE boolean_parameters(b, i + 1,
             IF b[i].v = "yes" \/ b[i].v = "no" THEN acc \cup {b[i].k} ELSE acc)

\* The loop of Doctrines::load_item over the definitions of the group's block,
\* from definition i on; acc is the catalog and the diagnostics so far.
RECURSIVE load_doctrines(_, _, _, _)
load_doctrines(key, b, i, acc) ==
    IF i > Len(b) THEN acc
    ELSE LET doctrine == KeyTok(b[i].name, key.kind)
             self == acc.self
         IN IF doctrine.s = "is_available_on_create" \/ doctrine.s = "name"
            THEN load_doctrines(key, b, i + 1, acc)
            ELSE LET dup == IF contains_key(self.doctrines, doctrine.s)
                               /\ kind_ge(self.doctrines[doctrine.s].key.kind,
                                          doctrine.kind)
                            THEN dup_error(doctrine, self.doctrines[doctrine.s].key,
                                           "doctrine")
                            ELSE <<>>
                     params == IF b[i].body.ok
                               THEN boolean_parameters(b[i].body.val[1], 1,
                                                       self.parameters)
                               ELSE self.parameters
                 IN load_doctrines(key, b, i + 1,
                        [self |-> [self EXCEPT
                                     !.parameters = params,
                                     !.doctrines = insert(@, doctrine.s,
                                         [key |-> doctrine, group |-> key])],
                         diags |-> acc.diags \o dup])

\* Doctrines::load_item loading the doctrines of a group without storing the
\* group.
Doctrines_load_item_without_group(self, key, b) ==
    LET dup == IF contains_key(self.groups, key.s)
                  /\ kind_ge(self.groups[key.s].key.kind, key.kind)
               THEN dup_error(key, self.groups[key.s].key, "doctrine group")
               ELSE <<>>
    IN load_doctrines(key, b, 1, [self |-> self, diags |-> dup])

\* Doctrines::load_item.
Doctrines_load_item(self, key, b) ==
    LET dup == IF contains_key(self.groups, key.s)
                  /\ kind_ge(self.groups[key.s].key.kind, key.kind)
               THEN dup_error(key, self.groups[key.s].key, "doctrine group")
               ELSE <<>>
    IN load_doctrines(key, b, 1,
           [self |-> [self EXCEPT !.groups = insert(@, key.s, [key |-> key])],
            diags |-> dup])

\* The keys, the definitions and the group blocks that the files hold.
MaxDefs == 2
TriggerKeys == {"t1"}
GroupKeys == {"g1", "g2"}
ParameterBlocks ==
    {NoParameters, Parameters(<<Assign("p1", "yes")>>),
     Parameters(<<Assign("p1", "5")>>)}
Definitions ==
    {[name |-> "d1", body |-> p] : p \in ParameterBlocks}
        \cup {[name |-> "name", body |-> NoParameters]}
GroupBlocks == SeqsUpTo(Definitions, MaxDefs)

CatInit ==
    /\ cat = [triggers |-> TriggersDefault, doctrines |-> DoctrinesDefault]
    /\ cat_last = [op |-> "new", key |-> KeyTok("", "VanillaFile"),
                   names |-> {}, diags |-> <<>>]

\* The loop of Triggers::handle_file reaches one definition of a file.
LoadTrigger ==
    /\ \E s \in TriggerKeys, kind \in FileKinds :
         LET key == KeyTok(s, kind)
             r == Triggers_load_item(cat.triggers, key)
         IN /\ cat' = [cat EXCEPT !.triggers = r.self]
            /\ cat_last' = [op |-> "Triggers::load_item", key |-> key,
                            names |-> {}, diags |-> r.diags]
    /\ UNCHANGED nonCatVars

\* The loop of Doctrines::handle_file reaches one definition of a file.
LoadDoctrineGroup ==
    /\ \E s \in GroupKeys, kind \in FileKinds, b \in GroupBlocks :
         LET key == KeyTok(s, kind)
             r == Doctrines_load_item(cat.doctrines, key, b)
         IN /\ cat' = [cat EXCEPT !.doctrines = r.self]
            /\ cat_last' = [op |-> "Doctrines::load_item", key |-> key,
                            names |-> {b[i].name : i \in 1..Len(b)},
                            diags |-> r.diags]
    /\ UNCHANGED nonCatVars

CatNext ==
    \/ LoadTrigger
    \/ LoadDoctrineGroup

\* The catalogs while no file is loaded.
CatIdle == CatInit

\* ------------------------------------------------------ the ScopeSet algebra
\* The operations the bitflags! block gives Scopes: self | other, self & !other.
union(a, b) == a \cup b
difference(a, b) == {bit \in a : bit \notin b}

\* The sets the operations are tried on: the unions of some flags, all().
ScopeSets ==
    {UNION S : S \in SUBSET {None, Value, Character}} \cup {Scopes_all}

NoOperation == [op |-> "none", A |-> {}, B |-> {}, R |-> {}]

AlgInit == alg = NoOperation

Union ==
    /\ \E A \in ScopeSets, B \in ScopeSets :
         alg' = [op |-> "union", A |-> A, B |-> B, R |-> union(A, B)]
    /\ UNCHANGED <<game, features, nonAlgVars>>

Difference ==
    /\ \E A \in ScopeSets, B \in ScopeSets :
         alg' = [op |-> "difference", A |-> A, B |-> B, R |-> difference(A, B)]
    /\ UNCHANGED <<game, features, nonAlgVars>>

All ==
    /\ alg' = [op |-> "all", A |-> {}, B |-> {}, R |-> Scopes_all]
    /\ UNCHANGED <<game, features, nonAlgVars>>

NonPrimitive ==
    /\ alg' = [op |-> "non_primitive", A |-> {}, B |-> {}, R |-> non_primitive]
    /\ UNCHANGED <<game, features, nonAlgVars>>

Primitive ==
    /\ alg' = [op |-> "primitive", A |-> {}, B |-> {}, R |-> primitive]
    /\ UNCHANGED <<game, features, nonAlgVars>>

AllButNone ==
    /\ alg' = [op |-> "all_but_none", A |-> {}, B |-> {}, R |-> all_but_none]
    /\ UNCHANGED <<game, features, nonAlgVars>>

AlgNext ==
    \/ Union
    \/ Difference
    \/ All
    \/ NonPrimitive
    \/ Primitive
    \/ AllButNone

\* The algebra's variable while no operation is tried.
AlgIdle == AlgInit

\* ------------------------------------------------------ the Events catalog
\* A key or a namespace, as the characters it is written with.
Str_n_1 == <<"n", ".", "1">>
Str_n1 == <<"n", "1">>
Str_n == <<"n">>

is_ascii_digit(c) == c \in {"0", "1", "2", "3", "4", "5", "6", "7", "8", "9"}

\* str::split_once('.'): the text before and the text after the first dot.
split_once(s) ==
    LET dots == {i \in 1..Len(s) : s[i] = "."}
    IN IF dots = {} THEN RetNone
       ELSE LET i == CHOOSE d \in dots : \A e \in dots : d <= e
            IN RetSome(<<SubSeq(s, 1, i - 1), SubSeq(s, i + 1, Len(s))>>)

\* errors::warn_info: one report, the warning with its explanation.
warn_info(loc, key, msg) == Diag("warn", key, msg, loc)

NamespaceMissing == "Event files must start with a namespace declaration"
NamespaceMismatch == "Event name should start with namespace"
NamespaceForm == "Event names should be in the form NAMESPACE.NUMBER"

\* Events::default().
EventsDefault ==
    [events |-> EmptyMap, scripted_triggers |-> EmptyMap,
     scripted_effects |-> EmptyMap, error_events |-> EmptyMap]

\* The reports of a load function that met the stored definition other of its
\* key, with the pointer to the other definition put before the error.
duplicate_reports_pointer_first(key, other, log, what) ==
    IF log
    THEN <<info(other, "Duplicate", what), error(key, "Duplicate", what)>>
    ELSE <<>>

\* The reports of a load function that met the stored definition other of its
\* key; log is will_log(key, ErrorKey::Duplicate).
duplicate_reports(key, other, log, what) ==
    IF log
    THEN <<error(key, "Duplicate", what), info(other, "Duplicate", what)>>
    ELSE <<>>

\* Events::load_event.
load_event(self, key, namespaces, log) ==
    LET split == split_once(key.s)
        check ==
            IF namespaces = <<>>
            THEN [ok |-> FALSE,
                  diags |-> <<error(key, "EventNamespace", NamespaceMissing)>>]
            ELSE IF split.ok
            THEN LET key_a == split.val[1][1]
                     key_b == split.val[1][2]
                 IN IF \A i \in 1..Len(key_b) : is_ascii_digit(key_b[i])
                    THEN IF \E j \in 1..Len(namespaces) : namespaces[j] = key_a
                         THEN [ok |-> TRUE, diags |-> <<>>]
                         ELSE [ok |-> FALSE,
                               diags |-> <<warn_info(key, "EventNamespace",
                                                     NamespaceMismatch)>>]
                    ELSE [ok |-> FALSE,
                          diags |-> <<warn_info(key, "EventNamespace",
                                                NamespaceForm)>>]
            ELSE [ok |-> FALSE,
                  diags |-> <<warn_info(key, "EventNamespace", NamespaceForm)>>]
    IN IF check.ok
       THEN [self |-> [self EXCEPT !.events = insert(@, key.s, [key |-> key])],
             diags |-> check.diags \o
                 (IF contains_key(self.events, key.s)
                  THEN duplicate_reports(key, self.events[key.s].key, log, "event")
                  ELSE <<>>)]
       ELSE [self |-> [self EXCEPT !.error_events = insert(@, key.s, key)],
             diags |-> check.diags]

\* Events::load_scripted_trigger.
load_scripted_trigger(self, key, log) ==
    [self |-> [self EXCEPT !.scripted_triggers = insert(@, key.s, [key |-> key])],
     diags |-> IF contains_key(self.scripted_triggers, key.s)
               THEN duplicate_reports(key, self.scripted_triggers[key.s].key,
                                      log, "trigger")
               ELSE <<>>]

\* Events::load_scripted_effect.
load_scripted_effect(self, key, log) ==
    [self |-> [self EXCEPT !.scripted_effects = insert(@, key.s, [key |-> key])],
     diags |-> IF contains_key(self.scripted_effects, key.s)
               THEN duplicate_reports(key, self.scripted_effects[key.s].key,
                                      log, "effect")
               ELSE <<>>]

\* ------------------------------------------------------ the loader threads
\* Each thread fills the Events catalog it owns from its own files; all of
\* them report into the one sink.
Threads == {1, 2}

EventKeys == {Str_n_1, Str_n1}
Namespaces == {<<>>, <<Str_n>>}

\* The files the threads load are files of the mod: while a file of any other
\* kind is handled the log is paused and nothing is reported.
LoadedKinds == {"ModFile"}

SnkInit ==
    /\ ev = [t \in Threads |-> EventsDefault]
    /\ thr = [t \in Threads |->
                [pc |-> "idle", todo |-> <<>>, out |-> <<>>]]
    /\ sink = <<>>

\* Thread t enters a load function on its next entity: its reports are now
\* due, in their order.  The reports of the entity it loaded before are no
\* longer followed.
Begin(t, r) ==
    /\ ev' = [ev EXCEPT ![t] = r.self]
    /\ thr' = [thr EXCEPT ![t] = [pc |-> "emit", todo |-> r.diags, out |-> <<>>]]
    /\ sink' = SelectSeq(sink, LAMBDA report : report.t # t)
    /\ UNCHANGED nonSnkVars

BeginLoadEvent ==
    \E t \in Threads :
        /\ thr[t].pc = "idle"
        /\ \E s \in EventKeys, kind \in LoadedKinds, namespaces \in Namespaces,
              log \in BOOLEAN :
             Begin(t, load_event(ev[t], KeyTok(s, kind), namespaces, log))

BeginLoadScriptedTrigger ==
    \E t \in Threads :
        /\ thr[t].pc = "idle"
        /\ \E kind \in LoadedKinds, log \in BOOLEAN :
             Begin(t, load_scripted_trigger(ev[t], KeyTok("st", kind), log))

BeginLoadScriptedEffect ==
    \E t \in Threads :
        /\ thr[t].pc = "idle"
        /\ \E kind \in LoadedKinds, log \in BOOLEAN :
             Begin(t, load_scripted_effect(ev[t], KeyTok("se", kind), log))

\* Thread t makes the next call of error, warn_info or info that is due: the
\* sink takes the report in.
Emit ==
    \E t \in Threads :
        /\ thr[t].pc = "emit"
        /\ thr[t].todo # <<>>
        /\ LET report == [t |-> t, d |-> Head(thr[t].todo)]
           IN /\ sink' = Append(sink, report)
              /\ thr' = [thr EXCEPT ![t].todo = Tail(@),
                                    ![t].out = Append(@, report)]
        /\ UNCHANGED <<ev, nonSnkVars>>

\* Thread t returns from the load function.
Return ==
    \E t \in Threads :
        /\ thr[t].pc = "emit"
        /\ thr[t].todo = <<>>
        /\ thr' = [thr EXCEPT ![t].pc = "idle"]
        /\ UNCHANGED <<ev, sink, nonSnkVars>>

SnkNext ==
    \/ BeginLoadEvent
    \/ BeginLoadScriptedTrigger
    \/ BeginLoadScriptedEffect
    \/ Emit
    \/ Return

\* The loader threads' variables while none runs.
SnkIdle == SnkInit

\* ------------------------------------------------------ handling the files
\* errors::error_info: one report, the error with its explanation.
error_info(loc, key, msg) == Diag("error", key, msg, loc)

Str_n_dot == <<"n", ".">>
Str_n_x == <<"n", ".", "x">>
Str_m_1 == <<"m", ".", "1">>
Str_namespace == <<"namespace">>
Str_scripted_trigger == <<"scripted_trigger">>
Str_scripted_effect == <<"scripted_effect">>

\* DefinitionItem: what Block::iter_definitions_warn yields.
Assignment(key, value) == [form |-> "Assignment", key |-> key, value |-> value]
Keyword(key) == [form |-> "Keyword", key |-> key, value |-> <<>>]
Definition(key) == [form |-> "Definition", key |-> key, value |-> <<>>]
NoItem == [form |-> "none", key |-> <<>>, value |-> <<>>]

\* The definitions an event file is made of.
Items ==
    {Assignment(Str_namespace, Str_n),
     Assignment(Str_scripted_trigger, Str_n), Assignment(Str_n1, Str_n),
     Keyword(Str_scripted_trigger), Keyword(Str_scripted_effect),
     Keyword(Str_n1),
     Definition(Str_namespace), Definition(Str_n_1), Definition(Str_n1)}

\* namespaces.push(value): only namespaces.is_empty() and namespaces.contains()
\* are asked of the Vec, so a value it holds already is not added again.
push(namespaces, value) ==
    IF \E j \in 1..Len(namespaces) : namespaces[j] = value
    THEN namespaces
    ELSE Append(namespaces, value)

\* No file is being handled.
Returned(handler, op, ds) ==
    [pc |-> "idle", handler |-> handler, op |-> op, kind |-> "ModFile",
     namespaces |-> <<>>, expecting |-> "Event", item |-> NoItem, diags |-> ds]

HfInit ==
    /\ events = EventsDefault
    /\ hf = Returned("none", "new", <<>>)

\* The match of Events::handle_file going on to expect a scripted trigger
\* after it has loaded one.
handle_definition_keeps_state(self, kind, namespaces, expecting, def) ==
    LET key == KeyTok(def.key, kind)
        same == [self |-> self, namespaces |-> namespaces,
                 expecting |-> expecting, op |-> "none", diags |-> <<>>]
    IN CASE def.form = "Assignment" /\ def.key = Str_namespace ->
                [same EXCEPT !.namespaces = push(namespaces, def.value),
                             !.op = "push"]
         [] def.form = "Assignment" /\ def.key # Str_namespace
                /\ def.key \in {Str_scripted_trigger, Str_scripted_effect} ->
                [same EXCEPT !.diags =
                    <<error(key, "Validation", "should be used without =")>>]
         [] def.form = "Assignment" /\ def.key # Str_namespace
                /\ def.key \notin {Str_scripted_trigger, Str_scripted_effect} ->
                [same EXCEPT !.diags =
                    <<error(key, "Validation", "unknown setting in event files")>>]
         [] def.form = "Keyword" /\ expecting = "Event"
                /\ def.key = Str_scripted_trigger ->
                [same EXCEPT !.expecting = "ScriptedTrigger", !.op = "keyword"]
         [] def.form = "Keyword" /\ expecting = "Event"
                /\ def.key # Str_scripted_trigger
                /\ def.key = Str_scripted_effect ->
                [same EXCEPT !.expecting = "ScriptedEffect", !.op = "keyword"]
         [] def.form = "Keyword"
                /\ ~(expecting = "Event"
                     /\ def.key \in {Str_scripted_trigger, Str_scripted_effect}) ->
                [same EXCEPT !.diags =
                    <<error_info(key, "Validation", "unexpected token")>>]
         [] def.form = "Definition" /\ def.key = Str_namespace ->
                [same EXCEPT !.diags =
                    <<error(key, "EventNamespace",
                            "expected namespace to have a simple string value")>>]
         [] def.form = "Definition" /\ def.key # Str_namespace ->
                CASE expecting = "ScriptedTrigger" ->
                        LET r == load_scripted_trigger(self, key, TRUE)
                        IN [same EXCEPT !.self = r.self, !.diags = r.diags,
                                        !.op = "load_scripted_trigger"]
                  [] expecting = "ScriptedEffect" ->
                        LET r == load_scripted_effect(self, key, TRUE)
                        IN [same EXCEPT !.self = r.self, !.diags = r.diags,
                                        !.expecting = "Event",
                                        !.op = "load_scripted_effect"]
                  [] expecting = "Event" ->
                        LET r == load_event(self, key, namespaces, TRUE)
                        IN [same EXCEPT !.self = r.self, !.diags = r.diags,
                                        !.op = "load_event"]

\* One turn of the loop of Events::handle_file: the match on the definition.
\* The result is the catalog, the namespaces, the state expecting, what was
\* done and the reports.
handle_definition(self, kind, namespaces, expecting, def) ==
    LET key == KeyTok(def.key, kind)
        same == [self |-> self, namespaces |-> namespaces,
                 expecting |-> expecting, op |-> "none", diags |-> <<>>]
    IN CASE def.form = "Assignment" /\ def.key = Str_namespace ->
                [same EXCEPT !.namespaces = push(namespaces, def.value),
                             !.op = "push"]
         [] def.form = "Assignment" /\ def.key # Str_namespace
                /\ def.key \in {Str_scripted_trigger, Str_scripted_effect} ->
                [same EXCEPT !.diags =
                    <<error(key, "Validation", "should be used without =")>>]
         [] def.form = "Assignment" /\ def.key # Str_namespace
                /\ def.key \notin {Str_scripted_trigger, Str_scripted_effect} ->
                [same EXCEPT !.diags =
                    <<error(key, "Validation", "unknown setting in event files")>>]
         [] def.form = "Keyword" /\ expecting = "Event"
                /\ def.key = Str_scripted_trigger ->
                [same EXCEPT !.expecting = "ScriptedTrigger", !.op = "keyword"]
         [] def.form = "Keyword" /\ expecting = "Event"
                /\ def.key # Str_scripted_trigger
                /\ def.key = Str_scripted_effect ->
                [same EXCEPT !.expecting = "ScriptedEffect", !.op = "keyword"]
         [] def.form = "Keyword"
                /\ ~(expecting = "Event"
                     /\ def.key \in {Str_scripted_trigger, Str_scripted_effect}) ->
                [same EXCEPT !.diags =
                    <<error_info(key, "Validation", "unexpected token")>>]
         [] def.form = "Definition" /\ def.key = Str_namespace ->
                [same EXCEPT !.diags =
                    <<error(key, "EventNamespace",
                            "expected namespace to have a simple string value")>>]
         [] def.form = "Definition" /\ def.key # Str_namespace ->
                CASE expecting = "ScriptedTrigger" ->
                        LET r == load_scripted_trigger(self, key, TRUE)
                        IN [same EXCEPT !.self = r.self, !.diags = r.diags,
                                        !.expecting = "Event",
                                        !.op = "load_scripted_trigger"]
                  [] expecting = "ScriptedEffect" ->
                        LET r == load_scripted_effect(self, key, TRUE)
                        IN [same EXCEPT !.self = r.self, !.diags = r.diags,
                                        !.expecting = "Event",
                                        !.op = "load_scripted_effect"]
                  [] expecting = "Event" ->
                        LET r == load_event(self, key, namespaces, TRUE)
                        IN [same EXCEPT !.self = r.self, !.diags = r.diags,
                                        !.op = "load_event"]

\* Events::handle_file up to its loop: the file name, the reading.
EventsHandleFile ==
    /\ hf.pc = "idle"
    /\ \E txt \in BOOLEAN, kind \in LoadedKinds, read \in {"Ok", "Err"} :
         hf' = IF ~txt THEN Returned("Events", "not_txt", <<>>)
               ELSE IF read = "Err"
               THEN Returned("Events", "read_error",
                        <<error_info(KeyTok(<<>>, kind), "ReadError",
                                     "could not read file")>>)
               ELSE [Returned("Events", "read", <<>>) EXCEPT
                        !.pc = "loop", !.kind = kind]
    /\ UNCHANGED <<events, cat, cat_last, nonHfVars>>

\* The loop of Events::handle_file reaches the next definition of the file.
EventsDefinition ==
    /\ hf.pc = "loop"
    /\ \E def \in Items :
         LET r == handle_definition(events, hf.kind, hf.namespaces,
                                    hf.expecting, def)
         IN /\ events' = r.self
            /\ hf' = [hf EXCEPT !.namespaces = r.namespaces,
                                !.expecting = r.expecting,
                                !.op = r.op, !.item = def, !.diags = r.diags]
    /\ UNCHANGED <<cat, cat_last, nonHfVars>>

\* The loop of Events::handle_file has reached the end of the file.
EventsReturn ==
    /\ hf.pc = "loop"
    /\ hf' = [Returned("Events", "return", <<>>) EXCEPT
                 !.expecting = hf.expecting]
    /\ UNCHANGED <<events, cat, cat_last, nonHfVars>>

\* The loop of Triggers::handle_file over the definitions b[i..].
RECURSIVE load_triggers(_, _, _, _)
load_triggers(b, kind, i, acc) ==
    IF i > Len(b) THEN acc
    ELSE LET r == Triggers_load_item(acc.self, KeyTok(b[i], kind))
         IN load_triggers(b, kind, i + 1,
                [self |-> r.self, diags |-> acc.diags \o r.diags])

\* Triggers::handle_file giving up on a file it cannot read without a report.
Triggers_handle_file_silent(self, txt, kind, read) ==
    IF ~txt \/ ~read.ok
    THEN [self |-> self, op |-> IF txt THEN "read_error" ELSE "not_txt",
          diags |-> <<>>]
    ELSE LET r == load_triggers(read.val[1], kind, 1,
                                [self |-> self, diags |-> <<>>])
         IN [self |-> r.self, op |-> "return", diags |-> r.diags]

\* Triggers::handle_file.
Triggers_handle_file(self, txt, kind, read) ==
    IF ~txt THEN [self |-> self, op |-> "not_txt", diags |-> <<>>]
    ELSE IF ~read.ok
    THEN [self |-> self, op |-> "read_error",
          diags |-> <<error_info(KeyTok("", kind), "ReadError",
                                 "could not read file")>>]
    ELSE LET r == load_triggers(read.val[1], kind, 1,
                                [self |-> self, diags |-> <<>>])
         IN [self |-> r.self, op |-> "return", diags |-> r.diags]

TriggersHandleFile ==
    /\ hf.pc = "idle"
    /\ \E txt \in BOOLEAN, kind \in FileKinds,
          read \in {RetNone} \cup {RetSome(b) : b \in SeqsUpTo(TriggerKeys, MaxDefs)} :
         LET r == Triggers_handle_file(cat.triggers, txt, kind, read)
         IN /\ cat' = [cat EXCEPT !.triggers = r.self]
            /\ hf' = Returned("Triggers", r.op, r.diags)
    /\ UNCHANGED <<events, cat_last, nonHfVars>>

\* The keys and the namespaces Events::load_event is tried on.
LoadEventKeys == {Str_n_1, Str_n_dot, Str_n1, Str_n_x, Str_m_1}

\* Events::handle_file calls load_event on a definition of the file, the
\* namespaces being those the file has declared before it.
LoadEvent ==
    /\ hf.pc = "idle"
    /\ \E s \in LoadEventKeys, kind \in LoadedKinds, namespaces \in Namespaces,
          log \in BOOLEAN :
         LET r == load_event(events, KeyTok(s, kind), namespaces, log)
         IN /\ events' = r.self
            /\ hf' = [Returned("Events", "load_event", r.diags) EXCEPT
                         !.kind = kind, !.namespaces = namespaces,
                         !.item = Definition(s)]
    /\ UNCHANGED <<cat, cat_last, nonHfVars>>

LeNext == LoadEvent

\* Events::handle_file calls one of the load functions of Events on a
\* definition keyed n.1, from a file of either kind.
Reloaded(op, kind, namespaces, r) ==
    /\ events' = r.self
    /\ hf' = [Returned("Events", op, r.diags) EXCEPT
                 !.kind = kind, !.namespaces = namespaces,
                 !.item = Definition(Str_n_1)]
    /\ UNCHANGED <<cat, cat_last, nonHfVars>>

ReloadEvent ==
    \E kind \in FileKinds, namespaces \in Namespaces, log \in BOOLEAN :
        Reloaded("load_event", kind, namespaces,
                 load_event(events, KeyTok(Str_n_1, kind), namespaces, log))

ReloadScriptedTrigger ==
    \E kind \in FileKinds, log \in BOOLEAN :
        Reloaded("load_scripted_trigger", kind, <<>>,
                 load_scripted_trigger(events, KeyTok(Str_n_1, kind), log))

ReloadScriptedEffect ==
    \E kind \in FileKinds, log \in BOOLEAN :
        Reloaded("load_scripted_effect", kind, <<>>,
                 load_scripted_effect(events, KeyTok(Str_n_1, kind), log))

\* The catalogs before any load.
CatDefault == [triggers |-> TriggersDefault, doctrines |-> DoctrinesDefault]

\* Triggers, Doctrines and Events are catalogs of their own, each filled by
\* its own handler: a run of loads is followed on one of them at a time.
ReloadNext ==
    \/ events = EventsDefault /\ LoadTrigger
    \/ events = EventsDefault /\ LoadDoctrineGroup
    \/ cat = CatDefault /\ ReloadEvent
    \/ cat = CatDefault /\ ReloadScriptedTrigger
    \/ cat = CatDefault /\ ReloadScriptedEffect

HfNext ==
    \/ EventsHandleFile
    \/ EventsDefinition
    \/ EventsReturn
    \/ TriggersHandleFile

\* The file handlers' variables while no file is handled.
HfIdle == HfInit

\* ----------------------------------------------------- the specifications
\* Validation of one block by Validators.
Init ==
    VdInit /\ ScIdle /\ LkIdle /\ CatIdle /\ AlgIdle /\ SnkIdle /\ HfIdle

Next == VdNext

Spec == Init /\ [][Next]_vars

\* The declarations of lists, of choices and of history blocks, on blocks
\* made for them.
DeclSpecInit ==
    DeclInit /\ ScIdle /\ LkIdle /\ CatIdle /\ AlgIdle /\ SnkIdle /\ HfIdle

DeclSpec == DeclSpecInit /\ [][DeclNext]_vars

\* The validation of the loyalty items of Imperator.
LoySpecInit ==
    LoyInit /\ ScIdle /\ LkIdle /\ CatIdle /\ AlgIdle /\ SnkIdle /\ HfIdle

LoySpec == LoySpecInit /\ [][LoyNext]_vars

\* Scope checking of the chains of one expression after another.
ScSpecInit ==
    ScInit /\ VdIdle /\ LkIdle /\ CatIdle /\ AlgIdle /\ SnkIdle /\ HfIdle

ScSpec == ScSpecInit /\ [][ScNext]_vars

\* The lookups of links, prefixes and iterators, in any game and any build.
LkSpecInit ==
    ScInit /\ VdIdle /\ LkInit /\ CatIdle /\ AlgIdle /\ SnkIdle /\ HfIdle

LkSpec == LkSpecInit /\ [][LkNext]_vars

\* The lookups of iterators in a mod whose scripted lists are named as
\* builtin and removed iterators are.
ItSpecInit ==
    ScInit /\ VdIdle /\ ItInit /\ CatIdle /\ AlgIdle /\ SnkIdle /\ HfIdle

ItSpec == ItSpecInit /\ [][ItNext]_vars

\* The loading of the files of the catalogs, in any order.
CatSpecInit ==
    CatInit /\ VdIdle /\ ScIdle /\ LkIdle /\ AlgIdle /\ SnkIdle /\ HfIdle

CatSpec == CatSpecInit /\ [][CatNext]_vars

\* The operations on Scopes, in any game and any build.
AlgSpecInit ==
    ScInit /\ VdIdle /\ LkIdle /\ CatIdle /\ AlgInit /\ SnkIdle /\ HfIdle

AlgSpec == AlgSpecInit /\ [][AlgNext]_vars

\* The loading of events by threads that report into the one sink.
SnkSpecInit ==
    SnkInit /\ VdIdle /\ ScIdle /\ LkIdle /\ CatIdle /\ AlgIdle /\ HfIdle

SnkSpec == SnkSpecInit /\ [][SnkNext]_vars

\* The handling of one file after another by Events and by Triggers.
HfSpecInit ==
    HfInit /\ VdIdle /\ ScIdle /\ LkIdle /\ CatIdle /\ AlgIdle /\ SnkIdle

HfSpec == HfSpecInit /\ [][HfNext]_vars

\* Calls of Events::load_event, one after another, on keys of every form.
LeSpec == HfSpecInit /\ [][LeNext]_vars

\* Loads and reloads of the same keys into each of the catalogs, from files
\* of both kinds in any order.
ReloadSpec == HfSpecInit /\ [][ReloadNext]_vars

\* ------------------------------------------------------ terms of the claims
\* The methods built on field_check, which accept one occurrence.
FieldCheckOps ==
    {"req_field", "field", "field_value", "field_value_loca", "field_block",
     "field_bool", "field_integer", "field_float", "field_choice", "field_list"}

SingleOps == FieldCheckOps \cup {"field_validated_block"}

MultiOps ==
    {"fields", "field_values", "field_validated", "field_validated_blocks",
     "field_blocks"}

\* The declarations that take a field name.
NamedOps == SingleOps \cup MultiOps \cup {"advice_field"}

ScalarOps ==
    {"field_value", "field_value_loca", "field_bool", "field_integer",
     "field_float", "field_choice", "field_values"}

BlockOps ==
    {"field_block", "field_blocks", "field_list", "field_validated_block",
     "field_validated_blocks"}

\* The methods that hand matched values to a handler of the caller.
HandlerOps ==
    {"field_validated", "field_validated_blocks", "field_validated_block",
     "validate_history_blocks"}

\* How many of the diagnostics ds have message msg at location loc.
NumAt(ds, msg, loc) ==
    Cardinality({n \in 1..Len(ds) : ds[n].msg = msg /\ ds[n].loc = loc})

\* How many of the diagnostics ds have message msg.
NumMsg(ds, msg) == Cardinality({n \in 1..Len(ds) : ds[n].msg = msg})

\* How many of the diagnostics ds are located on top-level entry i itself.
NumOn(ds, i) ==
    Cardinality({n \in 1..Len(ds) : ds[n].loc.i = i /\ ds[n].loc.j = 0})

Min(S) == CHOOSE x \in S : \A y \in S : x <= y

\* The entries the most recent call matched by name.
LastMatches ==
    IF last.op = "validate_history_blocks"
    THEN {n \in 1..Len(block) : block[n].key # NoKey /\ IsDate(block[n].key)}
    ELSE Matches(block, last.name)

\* The classes of warn_remaining.
Claimed(i) == block[i].key # NoKey /\ block[i].key \in known_fields
PermittedLoose(i) ==
    /\ block[i].key = NoKey
    /\ \/ block[i].val.kind = "token" /\ accepted_tokens
       \/ block[i].val.kind = "block" /\ accepted_blocks
ReportedUnknown(i) ==
    \/ block[i].key # NoKey /\ block[i].key \notin known_fields
    \/ block[i].key = NoKey /\ block[i].val.kind = "token" /\ ~accepted_tokens
    \/ block[i].key = NoKey /\ block[i].val.kind = "block" /\ ~accepted_blocks

\* The message warn_remaining owes a reported entry.
UnknownMsg(i) ==
    IF block[i].key # NoKey THEN UnknownField
    ELSE IF block[i].val.kind = "token" THEN MisplacedValue ELSE MisplacedBlock

UnknownLoc(i) == IF block[i].key # NoKey THEN KeyLoc(i) ELSE ValLoc(i)

\* ----------------------------------------------------------------- claims
\* C1: warn_remaining puts every top-level entry in exactly one of the classes
\* claimed, reported-unknown and explicitly-permitted-loose; a reported entry
\* gets exactly one diagnostic, located on it, and the entries of the other two
\* classes get none.
C1_Exhaustive ==
    last.op = "warn_remaining" =>
        /\ \A i \in 1..Len(block) :
            /\ Cardinality({c \in {"claimed", "unknown", "loose"} :
                   \/ c = "claimed" /\ Claimed(i)
                   \/ c = "unknown" /\ NumOn(diags, i) = 1
                   \/ c = "loose" /\ PermittedLoose(i)}) = 1
            /\ NumOn(diags, i) = IF ReportedUnknown(i) THEN 1 ELSE 0
            /\ NumAt(diags, UnknownMsg(i), UnknownLoc(i)) = NumOn(diags, i)
        /\ Len(diags) = Cardinality({i \in 1..Len(block) : ReportedUnknown(i)})

\* A sweep that meets a reported entry beside an explicitly permitted loose one.
C1_Witness ==
    /\ last.op = "warn_remaining"
    /\ \E i, j \in 1..Len(block) :
        /\ PermittedLoose(i)
        /\ ReportedUnknown(j) /\ NumOn(diags, j) = 1

\* C2: every declaration records its name as claimed, whether or not the block
\* has such an entry, and warn_remaining never reports 'unknown field' for an
\* entry whose key was declared earlier on the same Validator.
C2_DeclaredIsClaimed ==
    /\ declared \subseteq known_fields
    /\ last.op \in NamedOps => last.name \in declared
    /\ last.op \in {"warn_remaining", "validate_triggered_animation"} =>
           \A i \in 1..Len(block) :
               block[i].key \in declared => NumAt(diags, UnknownField, KeyLoc(i)) = 0

\* A sweep after two declarations, one of a name the block lacks, over a block
\* that has the other.
C2_Witness ==
    /\ last.op = "warn_remaining"
    /\ declared = {"trigger", "animation"}
    /\ Matches(block, "trigger") = {}
    /\ Matches(block, "animation") # {}

\* C3: one call of a single-occurrence declaration on a block with k entries
\* keyed `name` emits one DuplicateField on each occurrence after the first and
\* none on the first; the multi-occurrence declarations emit none.
C3_Duplicates ==
    /\ last.op \in SingleOps =>
        /\ \A i \in LastMatches :
               NumAt(diags, DuplicateField, KeyLoc(i)) =
                   IF i = Min(LastMatches) THEN 0 ELSE 1
        /\ NumMsg(diags, DuplicateField) =
               IF LastMatches = {} THEN 0 ELSE Cardinality(LastMatches) - 1
    /\ last.op \in MultiOps => NumMsg(diags, DuplicateField) = 0

\* A single-occurrence declaration that met its name twice.
C3_Witness ==
    /\ last.op = "field_validated_block"
    /\ Cardinality(LastMatches) >= 2
    /\ NumMsg(diags, DuplicateField) >= 1

\* C4: a contract that requires a field and declares it single-occurrence
\* (req_field then the typed declaration) reports a field that occurs twice
\* with exactly one DuplicateField, on the second occurrence.
C4_OneDuplicate ==
    (/\ last.op = "validate_triggered_animation"
     /\ Cardinality(Matches(block, "animation")) = 2
     /\ Matches(block, "trigger") = {}) =>
        /\ NumMsg(diags, DuplicateField) = 1
        /\ NumAt(diags, DuplicateField, KeyLoc(Max(Matches(block, "animation")))) = 1

\* C5: req_field emits exactly one MissingField, at the block, when no entry
\* is keyed `name`, none otherwise, and returns whether there is such an entry.
C5_ReqField ==
    last.op = "req_field" =>
        /\ NumMsg(diags, MissingField) = IF LastMatches = {} THEN 1 ELSE 0
        /\ NumAt(diags, MissingField, BlockLoc) = NumMsg(diags, MissingField)
        /\ last.ret.ok = (LastMatches # {})

\* req_field on a non-empty block that lacks the field.
C5_Witness ==
    /\ last.op = "req_field"
    /\ block # <<>>
    /\ LastMatches = {}
    /\ NumMsg(diags, MissingField) = 1

\* C6: a declaration that matches entries by name emits exactly one
\* WrongComparator, on the key, for each matched entry whose comparator is not
\* `=`, none for the others, and still checks the shape of that entry's value
\* or hands it to the handler.
C6_WrongComparator ==
    last.op \in SingleOps \cup MultiOps \cup {"validate_history_blocks"} =>
        /\ \A i \in LastMatches :
            /\ NumAt(diags, WrongComparator, KeyLoc(i)) =
                   IF block[i].cmp # "=" THEN 1 ELSE 0
            /\ (block[i].cmp # "=" /\ last.op \in ScalarOps
                    /\ block[i].val.kind = "block") =>
                   NumAt(diags, ExpectedValue, ValLoc(i)) = 1
            /\ (block[i].cmp # "="
                    /\ last.op \in BlockOps \cup {"validate_history_blocks"}
                    /\ block[i].val.kind = "token") =>
                   NumAt(diags, ExpectedBlock, ValLoc(i)) = 1
            /\ (block[i].cmp # "=" /\ last.op \in FieldCheckOps \cup {"field_validated"}) =>
                   i \in SeqRange(calls)
            /\ (block[i].cmp # "="
                    /\ last.op \in HandlerOps /\ block[i].val.kind = "block") =>
                   i \in SeqRange(calls)
        /\ NumMsg(diags, WrongComparator) =
               Cardinality({i \in LastMatches : block[i].cmp # "="})

\* A handler invoked on an entry right after its comparator was reported.
C6_Witness ==
    /\ last.op = "field_validated"
    /\ \E i \in LastMatches :
        /\ block[i].cmp # "="
        /\ NumAt(diags, WrongComparator, KeyLoc(i)) = 1
        /\ i \in SeqRange(calls)

\* C7: per matched occurrence, a scalar-expecting declaration emits exactly one
\* 'expected value, found block' when the value is a block and none when it is
\* a scalar; a block-expecting declaration emits exactly one 'expected block,
\* found value' when the value is a scalar and none when it is a block, and
\* then the caller's block handler is not invoked on that occurrence.
C7_TypeMismatch ==
    /\ last.op \in ScalarOps =>
        /\ \A i \in LastMatches :
            /\ NumAt(diags, ExpectedValue, ValLoc(i)) =
                   IF block[i].val.kind = "block" THEN 1 ELSE 0
            /\ NumAt(diags, ExpectedBlock, ValLoc(i)) = 0
        /\ NumMsg(diags, ExpectedValue) =
               Cardinality({i \in LastMatches : block[i].val.kind = "block"})
    /\ last.op \in BlockOps \cup {"validate_history_blocks"} =>
        /\ \A i \in LastMatches :
            /\ NumAt(diags, ExpectedBlock, ValLoc(i)) =
                   IF block[i].val.kind = "token" THEN 1 ELSE 0
            /\ NumAt(diags, ExpectedValue, ValLoc(i)) = 0
            /\ (last.op \in HandlerOps /\ block[i].val.kind = "token") =>
                   i \notin SeqRange(calls)
        /\ NumMsg(diags, ExpectedBlock) =
               Cardinality({i \in LastMatches : block[i].val.kind = "token"})

\* A block handler withheld from a scalar occurrence.
C7_Witness ==
    /\ last.op = "field_validated_blocks"
    /\ \E i \in LastMatches :
        /\ block[i].val.kind = "token"
        /\ NumAt(diags, ExpectedBlock, ValLoc(i)) = 1
        /\ i \notin SeqRange(calls)

\* The indices of a block, in order: what a loop over all its entries reaches.
Indices(b) == [n \in 1..Len(b) |-> n]

\* The elements of a set of indices, in ascending order.
RECURSIVE Ascending(_)
Ascending(S) == IF S = {} THEN <<>> ELSE <<Min(S)>> \o Ascending(S \ {Min(S)})

\* The methods that loop over the top-level entries.
LoopOps ==
    SingleOps \cup MultiOps
        \cup {"req_tokens_integers_exactly", "validate_history_blocks", "warn_remaining"}

\* The handlers that take a block only.
BlockHandlerOps ==
    {"field_validated_blocks", "field_validated_block", "validate_history_blocks"}

\* Every loop reaches every top-level entry, whatever was reported on the way.
AllVisited ==
    /\ last.op \in LoopOps => visited = Indices(block)
    /\ last.op = "validate_triggered_animation" =>
           visited = Indices(block) \o Indices(block) \o Indices(block)
                         \o Indices(block) \o Indices(block)

\* A declaration leaves the Validator as it would have without diagnostics:
\* the name is claimed and nothing else changes; warn_remaining changes nothing.
StepAsIfSilent ==
    /\ last'.op \in NamedOps =>
        /\ known_fields' = known_fields \cup {last'.name}
        /\ accepted_tokens' = accepted_tokens
        /\ accepted_blocks' = accepted_blocks
    /\ last'.op = "warn_remaining" =>
        /\ known_fields' = known_fields
        /\ accepted_tokens' = accepted_tokens
        /\ accepted_blocks' = accepted_blocks
    /\ block' = block

\* Further declarations and the sweep are accepted after any call.
StillAccepting == diags # <<>> => ENABLED WarnRemaining

\* C8 as stated: no diagnostic aborts a validation; every loop reaches every
\* entry; the handler is invoked for every matched occurrence, and the
\* Validator goes on as if nothing had been emitted.
C8_HandlerOnEveryMatch ==
    /\ [](/\ AllVisited
          /\ StillAccepting
          /\ last.op \in FieldCheckOps \cup HandlerOps =>
                 calls = Ascending(LastMatches))
    /\ [][StepAsIfSilent]_vars

\* C8 amended: as C8, with a handler that takes a block invoked for every
\* matched occurrence whose value is a block (duplicates and occurrences with a
\* wrong comparator included), and not for a scalar occurrence.
C8_NoAbort ==
    /\ [](/\ AllVisited
          /\ StillAccepting
          /\ last.op \in FieldCheckOps \cup {"field_validated"} =>
                 calls = Ascending(LastMatches)
          /\ last.op \in BlockHandlerOps =>
                 calls = Ascending({i \in LastMatches : block[i].val.kind = "block"}))
    /\ [][StepAsIfSilent]_vars

\* A handler invoked on a second occurrence whose comparator is wrong, after
\* both were reported.
C8_Witness ==
    /\ last.op = "field_validated_block"
    /\ \E i \in LastMatches :
        /\ i # Min(LastMatches)
        /\ NumAt(diags, DuplicateField, KeyLoc(i)) = 1
        /\ i \in SeqRange(calls)
    /\ visited = Indices(block)

\* Whether two sequences of diagnostics are the same multiset.
SameBag(a, b) ==
    \A d \in SeqRange(a) \cup SeqRange(b) :
        Cardinality({n \in 1..Len(a) : a[n] = d})
            = Cardinality({n \in 1..Len(b) : b[n] = d})

Narrowed == sc_last.op = "narrow" /\ sc_last.ret.ok

\* The input set the active game's tables give the token: that of the first
\* entry of its name, else, for a removed name, every scope type.
TableInput(token) ==
    LET Hits == {i \in 1..Len(SCOPE_TO_SCOPE) :
                    SCOPE_TO_SCOPE[i].s = to_lowercase(token)}
    IN IF Hits # {}
       THEN SCOPE_TO_SCOPE[CHOOSE i \in Hits : \A j \in Hits : i <= j].from
       ELSE Scopes_all

\* The scope mismatches among the diagnostics of the last scope operation.
Mismatches == {i \in 1..Len(sc_diags) : sc_diags[i].key = "Scopes"}

\* C10: narrowing the live set L for a token whose lookup gives the accepted
\* input A reports exactly one scope mismatch, citing A and L, when L and A
\* are disjoint; reports none and leaves L \cap A live when they meet; reports
\* none and leaves A live when L is every scope type. A is the first component
\* of the pair scope_to_scope returns for the token.
C10_Narrow ==
    Narrowed =>
        LET L == sc_last.L
            A == TableInput(sc_last.token)
        IN /\ sc_last.ret.val[1][1] = A
           /\ L \cap A = {} =>
                 /\ Cardinality(Mismatches) = 1
                 /\ \A i \in Mismatches :
                        /\ sc_diags[i].req = A
                        /\ sc_diags[i].actual = L
                        /\ sc_diags[i].loc = sc_last.token
           /\ L \cap A # {} =>
                 /\ Mismatches = {}
                 /\ live = L \cap A
           /\ L = Scopes_all =>
                 /\ Mismatches = {}
                 /\ live = A

\* A chain was narrowed for a link that does not accept the live scope types,
\* and the one mismatch was reported.
C10_Witness ==
    /\ Narrowed
    /\ sc_last.L \cap TableInput(sc_last.token) = {}
    /\ Cardinality(Mismatches) = 1

\* ------------------------------------------------- monotonicity (C11)
\* The token is in the active game's table of links.
InTable(token) ==
    \E i \in 1..Len(SCOPE_TO_SCOPE) : SCOPE_TO_SCOPE[i].s = to_lowercase(token)

\* The token is in no table of links but in the table of removed links.
IsRemoved(token) ==
    /\ ~InTable(token)
    /\ \E i \in 1..Len(SCOPE_TO_SCOPE_REMOVED) :
           SCOPE_TO_SCOPE_REMOVED[i] = to_lowercase(token)

\* The output set the active game's table gives the token.
TableOutput(token) ==
    LET Hits == {i \in 1..Len(SCOPE_TO_SCOPE) :
                    SCOPE_TO_SCOPE[i].s = to_lowercase(token)}
    IN SCOPE_TO_SCOPE[CHOOSE i \in Hits : \A j \in Hits : i <= j].to

\* This step applies the output of a link whose narrowing reported nothing.
SuccessfulStep ==
    /\ sc_last.op = "narrow"
    /\ sc_last'.op = "apply"
    /\ Mismatches = {}

\* C11 as stated: after a successful narrow+apply step the live set is a
\* subset of the live set before the step, unless the step's token was removed
\* (or unresolved), and then the live set is every scope type.
C11_Monotone ==
    [][SuccessfulStep =>
          \/ live' \subseteq sc_last.L
          \/ ~InTable(sc_last.token) /\ live' = Scopes_all]_vars

\* C11 amended: each narrowing leaves the live set a subset of what it was;
\* the apply that follows replaces it by the link's output, which is the
\* table's output for a link that is found (for `type`, a part of it) and every
\* scope type except none for a removed link.
C11_NarrowMonotone ==
    [][/\ sc_last'.op = "narrow" => live' \subseteq live
       /\ SuccessfulStep =>
             /\ InTable(sc_last.token) /\ to_lowercase(sc_last.token) # "type"
                    => live' = TableOutput(sc_last.token)
             /\ InTable(sc_last.token) => live' \subseteq TableOutput(sc_last.token)
             /\ IsRemoved(sc_last.token) => live' = all_but_none]_vars

\* The link `culture` was applied to a Character: the live set went from
\* Character to Culture, which is no subset of it.
C11_Witness ==
    /\ sc_last.op = "apply"
    /\ sc_last.token = "culture"
    /\ sc_last.L = Character
    /\ live = Culture

\* ---------------------------------------------- one mismatch per chain (C12)
\* The last scope operation walked the chain culture.faith_doctrine from a
\* root that holds no Character, in a game whose `culture` takes a Character.
WalkedFromNonCharacter ==
    /\ sc_last.op = "walk"
    /\ sc_last.ret.val[1][1] = <<"culture", "faith_doctrine">>
    /\ TableInput("culture") = Character
    /\ sc_last.L \cap Character = {}

\* C12: the walk of root.culture.faith_doctrine from a root without Character,
\* where `culture` accepts only Character, reports exactly one scope mismatch,
\* on `culture`, citing Character and the root's set; `faith_doctrine` is
\* looked up in the permissive set and reports none.
C12_OneMismatch ==
    WalkedFromNonCharacter =>
        /\ Cardinality(Mismatches) = 1
        /\ \A i \in Mismatches :
               /\ sc_diags[i].loc = "culture"
               /\ sc_diags[i].req = Character
               /\ sc_diags[i].actual = sc_last.L
        /\ sc_last.ret.val[1][2] = <<sc_last.L, Scopes_all>>
        /\ InTable("faith_doctrine") => live = TableOutput("faith_doctrine")

\* The chain was walked from a Culture root in the game that has both links.
C12_Witness ==
    /\ WalkedFromNonCharacter
    /\ sc_last.L = Culture
    /\ InTable("faith_doctrine")
    /\ Cardinality(Mismatches) = 1
    /\ live = Doctrine

\* ------------------------------------------------ removed names (C13)
\* The name is in the active game's table of iterators.
InIterTable(name) ==
    \E i \in 1..Len(SCOPE_ITERATOR) : SCOPE_ITERATOR[i].s = to_lowercase(name)

\* The name is in no table of iterators but in the table of removed iterators.
IsRemovedIter(name) ==
    /\ ~InIterTable(name)
    /\ \E i \in 1..Len(SCOPE_REMOVED_ITERATOR) :
           SCOPE_REMOVED_ITERATOR[i] = to_lowercase(name)

\* The last lookup was of a removed link, or ended at a removed iterator.
LookedUpRemoved ==
    \/ lk.fn = "scope_to_scope" /\ IsRemoved(lk.name)
    \/ lk.fn = "scope_iterator" /\ lk.pc = "done" /\ IsRemovedIter(lk.cur)

\* The token the last lookup, or its last activation, was given.
LookedUp == IF lk.fn = "scope_iterator" THEN lk.cur ELSE lk.name

\* The Removed diagnostics of the last lookup.
Removeds == {i \in 1..Len(lk.diags) : lk.diags[i].key = "Removed"}

\* One Removed diagnostic on the token, and a transition that accepts every
\* scope type, so that no narrowing against it reports a mismatch.
RemovedIsReported ==
    /\ Cardinality(Removeds) = 1
    /\ \A i \in Removeds : lk.diags[i].loc = LookedUp
    /\ lk.ret.ok
    /\ lk.ret.val[1][1] = Scopes_all
    /\ \A L \in LiveSets : narrow(L, lk.ret.val[1][1], LookedUp).diags = <<>>

InPrefixTable(prefix) ==
    \E i \in 1..Len(SCOPE_FROM_PREFIX) :
        SCOPE_FROM_PREFIX[i].s = to_lowercase(prefix)

\* The last lookup was of a token that is in neither the active table nor the
\* removed table of its kind, and, for an iterator, is no scripted list.
LookedUpUnknown ==
    \/ /\ lk.fn = "scope_to_scope"
       /\ ~InTable(lk.name) /\ ~IsRemoved(lk.name)
    \/ /\ lk.fn = "scope_prefix"
       /\ ~InPrefixTable(lk.name)
    \/ /\ lk.fn = "scope_iterator" /\ lk.pc = "done"
       /\ ~InIterTable(lk.cur) /\ ~IsRemovedIter(lk.cur)
       /\ ~scripted_lists_exists(lk.cur)

\* C14 as stated: the lookup of an unknown token still yields a transition,
\* whose output is every scope type.
C14_UnknownToAnything ==
    LookedUpUnknown =>
        /\ lk.ret.ok
        /\ lk.ret.val[1][2] = Scopes_all

\* C14 amended: the lookup of an unknown token yields no transition (not
\* found) and reports nothing; a permissive set for the next link is not the
\* lookup's to give.
C14_UnknownNotFound ==
    LookedUpUnknown =>
        /\ ~lk.ret.ok
        /\ lk.diags = <<>>

\* A scripted list whose base is an unknown name was looked up: not found.
C14_Witness ==
    /\ lk.fn = "scope_iterator"
    /\ lk.pc = "done"
    /\ lk.cur = "bogus"
    /\ lk.name = "my_list"
    /\ ~lk.ret.ok

\* ------------------------------------------------ the link `type` (C15)
\* The scope types `type` goes from, each with the one it goes to.
TypePairs ==
    {<<Building, BuildingType>>, <<CommanderOrder, CommanderOrderType>>,
     <<Institution, InstitutionType>>, <<InterestGroup, InterestGroupType>>,
     <<Law, LawType>>}

\* The types of those of the five that are members of the set S.
TypesOf(S) == UNION {p[2] : p \in {q \in TypePairs : q[1] \subseteq S}}

\* The pair the active game's prefix table gives the prefix.
PrefixPair(prefix) ==
    LET Hits == {i \in 1..Len(SCOPE_FROM_PREFIX) :
                    SCOPE_FROM_PREFIX[i].s = to_lowercase(prefix)}
        e == SCOPE_FROM_PREFIX[CHOOSE i \in Hits : \A j \in Hits : i <= j]
    IN <<e.from, e.to>>

\* C15: in Vic3 the link `type` goes to the types of those of Building,
\* CommanderOrder, Institution, InterestGroup, Law that are in the live set,
\* and to its table entry's output when none is; its input is the table
\* entry's. Any other link, and any prefix, gets its table entry's pair
\* whatever the live set is.
C15_TypeIsPolymorphic ==
    /\ lk.fn = "scope_to_scope" /\ InTable(lk.name) =>
          /\ lk.ret.ok
          /\ lk.ret.val[1][1] = TableInput(lk.name)
          /\ lk.ret.val[1][2] =
                IF game = "vic3" /\ to_lowercase(lk.name) = "type"
                      /\ TypesOf(lk.inscopes) # {}
                THEN TypesOf(lk.inscopes)
                ELSE TableOutput(lk.name)
    /\ lk.fn = "scope_prefix" /\ InPrefixTable(lk.name) =>
          /\ lk.ret.ok
          /\ lk.ret.val[1] = PrefixPair(lk.name)

\* `type` was looked up with a Law or an Institution live: it goes to their
\* two types only.
C15_Witness ==
    /\ lk.fn = "scope_to_scope"
    /\ lk.name = "type"
    /\ game = "vic3"
    /\ lk.inscopes = Law \cup Institution
    /\ lk.ret.val[1][2] = LawType \cup InstitutionType
    /\ lk.ret.val[1][2] # TableOutput("type")

\* ------------------------------------------- termination of iterators (C16)
\* C16: the lookup of an iterator returns for every catalog of scripted lists:
\* the recursion on the bases is cut by a guard, so it never enters more
\* activations than there are scripted lists, plus the one it starts with, and
\* never fills the stack.
C16_IteratorReturns ==
    lk.fn = "scope_iterator" =>
        /\ lk.pc # "overflow"
        /\ lk.depth <= Cardinality(ListNames) + 1

\* ---------------------------------------------------------------- C17
\* The Duplicate errors of the most recent load_item, each with the key it
\* was raised on and the stored key it points at.
DuplicatePairs ==
    {i \in 1..Len(cat_last.diags) - 1 :
        /\ cat_last.diags[i].sev = "error"
        /\ cat_last.diags[i].key = "Duplicate"
        /\ cat_last.diags[i + 1].sev = "info"}

\* C17: when load_item of the Triggers or of the Doctrines meets a key that is
\* already stored, it raises its Duplicate error only between two definitions
\* of equal provenance rank: never for a new definition of lower rank than the
\* stored one, never for one of higher rank.
C17_DuplicateOnlyEqualRank ==
    cat_last.op \in {"Triggers::load_item", "Doctrines::load_item"}
        => \A i \in DuplicatePairs :
               kind_rank(cat_last.diags[i].loc.kind)
                   = kind_rank(cat_last.diags[i + 1].loc.kind)

\* ---------------------------------------------------------------- C18
\* C18: for all ScopeSets A and B, union(A, B) contains A and contains B;
\* difference(A, A) is empty; and difference(full(), None | Value | Bool | Flag)
\* equals non_primitive().
C18_ScopeSetAlgebra ==
    /\ alg.op = "union" => alg.A \subseteq alg.R /\ alg.B \subseteq alg.R
    /\ alg.op = "difference" /\ alg.A = alg.B => alg.R = Scopes_empty
    /\ alg.op = "non_primitive"
         => alg.R = difference(Scopes_all,
                               union(union(union(None, Value), Bool), Flag))

\* non_primitive() was computed in a build of more than one game, and it
\* holds scope types but none of the four generic ones.
C18_Witness ==
    /\ alg.op = "non_primitive"
    /\ Cardinality(features) > 1
    /\ Character \subseteq alg.R
    /\ alg.R \cap (None \cup Value \cup Bool \cup Flag) = {}

\* ---------------------------------------------------------------- C19
\* The closed vocabulary of a game: the four generic scope types and the
\* scope types the bitflags! block gives that game.
Vocabulary(g) == UNION CompiledFlags({g})

\* C19: a ScopeSet never mixes the tags of two games: all(), all_but_none()
\* and non_primitive() hold only tags of the active game's vocabulary, and
\* all() is exactly that vocabulary, also in a build of more than one game.
C19_OneVocabulary ==
    /\ alg.op \in {"all", "all_but_none", "non_primitive"}
         => alg.R \subseteq Vocabulary(game)
    /\ alg.op = "all" => alg.R = Vocabulary(game)

\* ---------------------------------------------------------------- C20
\* The reports of thread t's entity in the sink, in the sink's order.
OfThread(t) == SelectSeq(sink, LAMBDA report : report.t = t)

IsDuplicateError(report) ==
    report.d.sev = "error" /\ report.d.key = "Duplicate"

\* An info 'the other ... is here'.
IsPointer(report) ==
    report.d.sev = "info" /\ report.d.key = "Duplicate"

WalksAsStated ==
    LET def == hf'.item
        keyed == def.form = "Definition" /\ def.key # Str_namespace
    IN /\ hf.pc = "idle" /\ hf'.pc = "loop" => hf'.expecting = "Event"
       /\ hf.pc = "loop" /\ hf'.pc = "loop" =>
            /\ def.form = "Keyword" /\ hf.expecting = "Event"
                    /\ def.key = Str_scripted_trigger
                 => hf'.expecting = "ScriptedTrigger" /\ hf'.diags = <<>>
            /\ def.form = "Keyword" /\ hf.expecting = "Event"
                    /\ def.key = Str_scripted_effect
                 => hf'.expecting = "ScriptedEffect" /\ hf'.diags = <<>>
            /\ def.form = "Keyword" /\ hf.expecting # "Event"
                 => /\ hf'.expecting = hf.expecting
                    /\ Len(hf'.diags) = 1
                    /\ hf'.diags[1].msg = "unexpected token"
            /\ keyed /\ hf.expecting = "ScriptedTrigger"
                 => /\ hf'.op = "load_scripted_trigger"
                    /\ contains_key(events'.scripted_triggers, def.key)
                    /\ events'.events = events.events
                    /\ events'.error_events = events.error_events
                    /\ hf'.expecting = "Event"
            /\ keyed /\ hf.expecting = "ScriptedEffect"
                 => /\ hf'.op = "load_scripted_effect"
                    /\ contains_key(events'.scripted_effects, def.key)
                    /\ events'.events = events.events
                    /\ events'.error_events = events.error_events
                    /\ hf'.expecting = "Event"
            /\ def.form = "Assignment" \/ (def.form = "Definition" /\ ~keyed)
                 => hf'.expecting = hf.expecting /\ events' = events
            /\ hf'.op = "load_event" <=> keyed /\ hf.expecting = "Event"

\* C26 as stated: Events::handle_file walks the definitions of a file with
\* the state expecting as above, and each accepted keyword scripted_trigger
\* or scripted_effect consumes exactly one later definition: none is left
\* waiting for its definition when the file ends.
C26_KeywordConsumesExactlyOne ==
    [][/\ WalksAsStated
       /\ hf.pc = "loop" /\ hf'.pc = "idle" => hf.expecting = "Event"]_vars

\* C26 amended: Events::handle_file walks the definitions of a file with the
\* state expecting as above; each accepted keyword consumes at most one later
\* definition, the next one not keyed namespace if the file has one, and a
\* definition not keyed namespace is loaded as an event iff the state is
\* Event when it is reached.
C26_KeywordConsumesAtMostOne == [][WalksAsStated]_vars

\* A definition has just been loaded as a scripted effect, not as an event,
\* and the state is back at Event.
C26_Witness ==
    /\ hf.pc = "loop"
    /\ hf.op = "load_scripted_effect"
    /\ hf.item = Definition(Str_n_1)
    /\ hf.expecting = "Event"
    /\ ~contains_key(events.events, Str_n_1)

\* ---------------------------------------------------------------- C27
\* The form NAMESPACE.NUMBER: s is one of the namespaces, a dot, and one or
\* more ASCII digits.
NamespaceNumber(s, namespaces) ==
    \E j \in 1..Len(namespaces), i \in 1..Len(s) :
        /\ SubSeq(s, 1, i - 1) = namespaces[j]
        /\ s[i] = "."
        /\ i < Len(s)
        /\ \A k \in (i + 1)..Len(s) : is_ascii_digit(s[k])

EventNamespaceReports(ds) ==
    SelectSeq(ds, LAMBDA d : d.key = "EventNamespace")

\* C27: each call of Events::load_event records the key in exactly one of
\* events and error_events: in events only when the file has declared a
\* namespace and the key is NAMESPACE.NUMBER, NAMESPACE one of the declared
\* namespaces and NUMBER one or more ASCII digits; every other key goes to
\* error_events with exactly one EventNamespace report.  A Duplicate error is
\* raised only for keys that pass the test and are already in events.
C27_EventsOrErrorEvents ==
    [][hf'.op = "load_event" /\ hf'.pc = "idle" =>
        LET s == hf'.item.key
            passes == NamespaceNumber(s, hf'.namespaces)
        IN /\ passes =>
                /\ contains_key(events'.events, s)
                /\ events'.error_events = events.error_events
                /\ EventNamespaceReports(hf'.diags) = <<>>
           /\ ~passes =>
                /\ contains_key(events'.error_events, s)
                /\ events'.events = events.events
                /\ Len(EventNamespaceReports(hf'.diags)) = 1
           /\ (\E i \in 1..Len(hf'.diags) : hf'.diags[i].key = "Duplicate")
                => passes /\ contains_key(events.events, s)]_vars

\* ---------------------------------------------------------------- C28
\* C28: after any sequence of Doctrines::load_item calls every Doctrine stored
\* in doctrines names a group that is present in groups, so that the lookup
\* groups[self.group] of Doctrine::validate finds it; and groups and doctrines
\* are only inserted or replaced, never removed.
C28_GroupOfDoctrinePresent ==
    /\ [](\A d \in DOMAIN cat.doctrines.doctrines :
            contains_key(cat.doctrines.groups, cat.doctrines.doctrines[d].group.s))
    /\ [][/\ DOMAIN cat.doctrines.groups \subseteq DOMAIN cat'.doctrines.groups
          /\ DOMAIN cat.doctrines.doctrines
                \subseteq DOMAIN cat'.doctrines.doctrines]_vars

\* A doctrine has been redefined under another group than the one it was
\* first loaded under, and both groups are stored.
C28_Witness ==
    /\ cat_last.op = "Doctrines::load_item"
    /\ cat_last.key.s = "g2"
    /\ \E i \in DuplicatePairs : cat_last.diags[i].msg = "doctrine"
    /\ contains_key(cat.doctrines.doctrines, "d1")
    /\ cat.doctrines.doctrines["d1"].group.s = "g2"
    /\ contains_key(cat.doctrines.groups, "g1")

\* ---------------------------------------------------------------- C29
\* After the most recent load_item of Triggers or of Doctrines, and after the
\* most recent load_scripted_trigger or load_scripted_effect, the catalog maps
\* each key of the load to the definition just loaded.
LastLoadedIsStored ==
    /\ cat_last.op = "Triggers::load_item"
         => /\ contains_key(cat.triggers.triggers, cat_last.key.s)
            /\ cat.triggers.triggers[cat_last.key.s].key = cat_last.key
    /\ cat_last.op = "Doctrines::load_item"
         => /\ contains_key(cat.doctrines.groups, cat_last.key.s)
            /\ cat.doctrines.groups[cat_last.key.s].key = cat_last.key
            /\ \A n \in cat_last.names \ {"name", "is_available_on_create"} :
                  /\ contains_key(cat.doctrines.doctrines, n)
                  /\ cat.doctrines.doctrines[n]
                        = [key |-> KeyTok(n, cat_last.key.kind),
                           group |-> cat_last.key]
    /\ hf.op = "load_scripted_trigger"
         => /\ contains_key(events.scripted_triggers, hf.item.key)
            /\ events.scripted_triggers[hf.item.key].key
                  = KeyTok(hf.item.key, hf.kind)
    /\ hf.op = "load_scripted_effect"
         => /\ contains_key(events.scripted_effects, hf.item.key)
            /\ events.scripted_effects[hf.item.key].key
                  = KeyTok(hf.item.key, hf.kind)

\* In Doctrines the set of boolean parameters only grows.
ParametersGrow ==
    cat.doctrines.parameters \subseteq cat'.doctrines.parameters

\* C29 as stated: in every catalog load, Events::load_event among them, the
\* most recently loaded definition of a key replaces the stored one
\* unconditionally, whether or not a Duplicate error was raised and whatever
\* the ranks; and the boolean parameters of Doctrines only grow.
C29_LastDefinitionStored ==
    /\ [](/\ LastLoadedIsStored
          /\ hf.op = "load_event"
               => /\ contains_key(events.events, hf.item.key)
                  /\ events.events[hf.item.key].key
                        = KeyTok(hf.item.key, hf.kind))
    /\ [][ParametersGrow]_vars

\* C29 amended: the same, but for Events::load_event only when the key passes
\* the namespace test; a key that fails it is recorded in error_events, and
\* what events holds under it stays.
C29_LastDefinitionStoredIfNamed ==
    /\ [](/\ LastLoadedIsStored
          /\ hf.op = "load_event"
               => IF NamespaceNumber(hf.item.key, hf.namespaces)
                  THEN /\ contains_key(events.events, hf.item.key)
                       /\ events.events[hf.item.key].key
                             = KeyTok(hf.item.key, hf.kind)
                  ELSE /\ contains_key(events.error_events, hf.item.key)
                       /\ events.error_events[hf.item.key]
                             = KeyTok(hf.item.key, hf.kind))
    /\ [][/\ ParametersGrow
          /\ hf'.op = "load_event"
                /\ ~NamespaceNumber(hf'.item.key, hf'.namespaces)
               => events'.events = events.events]_vars

\* An event of the mod is stored, and its key has been loaded again from a
\* file of the base game without a namespace: events still holds the first.
C29_Witness ==
    /\ hf.op = "load_event"
    /\ hf.kind = "VanillaFile"
    /\ hf.namespaces = <<>>
    /\ contains_key(events.events, hf.item.key)
    /\ events.events[hf.item.key].key.kind = "ModFile"
    /\ events.error_events[hf.item.key].kind = "VanillaFile"

\* ---------------------------------------------------------------- C30
\* The (input, output) pair of the builtin iterator of that name.
IterPair(name) ==
    LET i == CHOOSE j \in 1..Len(SCOPE_ITERATOR) :
                 SCOPE_ITERATOR[j].s = to_lowercase(name)
    IN <<SCOPE_ITERATOR[i].from, SCOPE_ITERATOR[i].to>>

\* The name is one that only the scripted lists answer for.
IsScriptedList(name) ==
    ~InIterTable(name) /\ ~IsRemovedIter(name) /\ scripted_lists_exists(name)

\* The chain of declared bases from `name`, followed for at most n lists: the
\* scripted lists on it, and how it ends.
RECURSIVE BaseChain(_, _)
BaseChain(name, n) ==
    IF InIterTable(name) THEN [on |-> <<>>, end |-> "builtin", at |-> name]
    ELSE IF IsRemovedIter(name) THEN [on |-> <<>>, end |-> "removed", at |-> name]
    ELSE IF ~scripted_lists_exists(name)
    THEN [on |-> <<>>, end |-> "unknown", at |-> name]
    ELSE IF lists[name] = NoBase
    THEN [on |-> <<name>>, end |-> "no base", at |-> name]
    ELSE IF n = 0 THEN [on |-> <<name>>, end |-> "none", at |-> name]
    ELSE LET rest == BaseChain(lists[name], n - 1)
         IN [rest EXCEPT !.on = <<name>> \o @]

ChainOfLookup == BaseChain(lk.name, Cardinality(DOMAIN lists))

\* C30: scope_iterator resolves a name in the builtin iterator table first
\* (no diagnostic, no scripted list consulted), then in the table of removed
\* iterators, and only then in the scripted lists.  For a scripted list whose
\* chain of declared bases ends at a builtin iterator, the result is that
\* builtin's pair and validate_call is invoked once for each scripted list on
\* the chain; when a list on the chain has no base, or the chain ends at a
\* name in none of the three sources, the result is None.
C30_IteratorResolutionOrder ==
    lk.fn = "scope_iterator" /\ lk.pc = "done" =>
        /\ InIterTable(lk.name) =>
              /\ lk.ret = RetSome(IterPair(lk.name))
              /\ lk.diags = <<>>
              /\ lk.calls = <<>>
        /\ IsRemovedIter(lk.name) =>
              /\ lk.ret.ok
              /\ Len(lk.diags) = 1 /\ lk.diags[1].key = "Removed"
              /\ lk.calls = <<>>
        /\ IsScriptedList(lk.name) /\ ChainOfLookup.end = "builtin" =>
              /\ lk.ret = RetSome(IterPair(ChainOfLookup.at))
              /\ lk.calls = ChainOfLookup.on
              /\ lk.diags = <<>>
        /\ IsScriptedList(lk.name)
              /\ ChainOfLookup.end \in {"no base", "unknown"} =>
              /\ lk.ret = RetNone
              /\ lk.calls = ChainOfLookup.on

\* In Victoria 3 the list my_list, based on the list participant, based on
\* the builtin Child, was looked up while the mod also has a list named
\* child: the pair is the builtin's and the two lists were called, not the
\* third.
C30_Witness ==
    /\ lk.fn = "scope_iterator" /\ lk.pc = "done"
    /\ game = "vic3"
    /\ lk.name = "my_list"
    /\ lists["my_list"] = "participant"
    /\ lists["participant"] = "Child"
    /\ lists["child"] = "bogus"
    /\ lk.ret = RetSome(<<Country, Building>>)
    /\ lk.calls = <<"my_list", "participant">>

\* ---------------------------------------------------------------- C22
\* The top-level entries of b whose key parses as a date.
Dated(b) == {n \in 1..Len(b) : b[n].key # NoKey /\ IsDate(b[n].key)}

\* C22: validate_history_blocks invokes the handler exactly once, in source
\* order, for every top-level entry whose key parses as a date and whose value
\* is a block; it claims exactly the date keys present in the block; and it
\* neither claims, reports nor hands to the handler any entry whose key is not
\* a date or that has no key.
C22_HistoryBlocks ==
    [][last'.op = "validate_history_blocks" =>
          /\ calls' = Ascending({n \in Dated(block) : block[n].val.kind = "block"})
          /\ known_fields' = known_fields \cup {block[n].key : n \in Dated(block)}
          /\ \A n \in 1..Len(diags') : diags'[n].loc.i \in Dated(block)
          /\ block' = block]_vars

\* A block of a sub-block without key and a dated sub-block has been through
\* validate_history_blocks: the handler got the second only, the date is
\* claimed, nothing is reported.
C22_Witness ==
    /\ last.op = "validate_history_blocks"
    /\ Len(block) = 2
    /\ block[1].key = NoKey /\ block[1].val.kind = "block"
    /\ block[2].key = DateKey /\ block[2].val.kind = "block"
    /\ calls = <<2>>
    /\ known_fields = {DateKey}
    /\ diags = <<>>

\* ---------------------------------------------------------------- C23
\* How many of the diagnostics ds are located inside the value of entry i.
NumInside(ds, i) ==
    Cardinality({n \in 1..Len(ds) : ds[n].loc.i = i /\ ds[n].loc.j > 0})

\* The value of the matched entry i is taken as a block of unlabelled
\* scalars: each labelled entry inside it has one MisplacedKey warning on its
\* key, each nested block one TypeMismatch error, an unlabelled scalar nothing.
TakenAsList(i) ==
    /\ block[i].val.kind = "block"
    /\ NumAt(diags, ExpectedValue, ValLoc(i)) = 0
    /\ \A j \in 1..Len(block[i].val.v) :
          LET e == block[i].val.v[j]
          IN /\ NumAt(diags, MisplacedKey, InnerKeyLoc(i, j))
                   = IF e.key # NoKey THEN 1 ELSE 0
             /\ NumAt(diags, ExpectedValue, InnerValLoc(i, j))
                   = IF e.val.kind = "block" THEN 1 ELSE 0
             /\ \A n \in 1..Len(diags) :
                   diags[n].loc.i = i /\ diags[n].loc.j = j =>
                       \/ diags[n] = warn(InnerKeyLoc(i, j), "Validation", MisplacedKey)
                       \/ diags[n] = error(InnerValLoc(i, j), "Validation", ExpectedValue)
    /\ NumInside(diags, i)
          = Cardinality({j \in 1..Len(block[i].val.v) :
                            block[i].val.v[j].key # NoKey})
            + Cardinality({j \in 1..Len(block[i].val.v) :
                              block[i].val.v[j].val.kind = "block"})

\* The matched entries whose value is a block.
BlockMatches == {i \in LastMatches : block[i].val.kind = "block"}

\* C23 as stated: field_list and field_values both take the value of the
\* field as a block of unlabelled scalars.
C23_BothTakeLists ==
    last.op \in {"field_list", "field_values"} =>
        \A i \in BlockMatches : TakenAsList(i)

\* C23 amended: field_list takes the value of the field as a block of
\* unlabelled scalars; field_values takes every field of that name as a
\* scalar, returns the scalars in order, and gives a field whose value is a
\* block one TypeMismatch error on the block and nothing on what is inside.
C23_ListsAndValues ==
    /\ last.op = "field_list" => \A i \in BlockMatches : TakenAsList(i)
    /\ last.op = "field_values" =>
          /\ \A i \in BlockMatches :
                /\ NumAt(diags, ExpectedValue, ValLoc(i)) = 1
                /\ NumInside(diags, i) = 0
          /\ \A i \in LastMatches \ BlockMatches :
                NumAt(diags, ExpectedValue, ValLoc(i)) = 0
          /\ last.ret.val
                = [n \in 1..Cardinality(LastMatches \ BlockMatches) |->
                      block[Ascending(LastMatches \ BlockMatches)[n]].val]

\* field_values met a field whose value is a block of unlabelled scalars
\* only: the block is reported, and field_list on another run accepts it.
C23_Witness ==
    /\ last.op = "field_values"
    /\ last.name = "trigger"
    /\ Len(block) = 1
    /\ block[1].val = Blk(InnerScalars)
    /\ diags = <<error(ValLoc(1), "Validation", ExpectedValue)>>
    /\ field_list(Cur, "trigger").diags = <<>>

\* ---------------------------------------------------------------- C24
\* C24: field_choice behaves as a single-occurrence scalar declaration and,
\* in addition, emits exactly one InvalidChoice error on the scalar of each
\* matched occurrence whose scalar is not among the choices, none for a
\* scalar among them; an occurrence whose value is a block gets the
\* TypeMismatch error and no InvalidChoice.
C24_Choice ==
    last.op = "field_choice" =>
        /\ SelectSeq(diags, LAMBDA d : d.msg # InvalidChoice)
              = field_value(Cur, last.name).diags
        /\ last.name \in known_fields
        /\ last.ret.ok = (LastMatches # {})
        /\ \A i \in LastMatches :
              /\ NumAt(diags, InvalidChoice, ValLoc(i))
                    = IF block[i].val.kind = "token"
                         /\ block[i].val.s \notin SeqRange(Choices)
                      THEN 1 ELSE 0
              /\ block[i].val.kind = "block" =>
                    NumAt(diags, ExpectedValue, ValLoc(i)) = 1
        /\ \A n \in 1..Len(diags) :
              diags[n].msg = InvalidChoice =>
                  /\ diags[n].sev = "error"
                  /\ \E i \in LastMatches : diags[n].loc = ValLoc(i)

\* field_choice met the field twice, once with a scalar among the choices
\* and once with one that is not: the second occurrence is reported as a
\* duplicate and as an invalid choice.
C24_Witness ==
    /\ last.op = "field_choice"
    /\ last.name = "animation"
    /\ Len(block) = 2
    /\ block[1].val = Tok("yes")
    /\ block[2].val = Tok("10")
    /\ block[2].key = "animation"
    /\ NumAt(diags, InvalidChoice, ValLoc(2)) = 1
    /\ NumAt(diags, DuplicateField, KeyLoc(2)) = 1
    /\ Len(diags) = 2

\* ---------------------------------------------------------------- C25
\* Each of value, min and max occurs at most once in b, value occurs, every
\* comparator is `=` and every value is a scalar that parses as a number.
WellFormed(b) ==
    /\ Cardinality(Matches(b, "value")) = 1
    /\ Cardinality(Matches(b, "min")) <= 1
    /\ Cardinality(Matches(b, "max")) <= 1
    /\ \A n \in 1..Len(b) :
          /\ b[n].key \in {"value", "min", "max"}
          /\ b[n].cmp = "="
          /\ b[n].val.kind = "token"
          /\ ParsesF64(b[n].val.s)

\* The block { value = abc }.
ValueAbc == << Entry("value", "=", Tok("abc")) >>

\* C25: under the contract {require value: number; optional min, max:
\* number}, a well-formed block produces no diagnostics at all, and the block
\* { value = abc } produces exactly one diagnostic in total, a NotANumber on
\* the scalar abc; the sweep that follows the contract adds nothing to either.
C25_LoyaltyContract ==
    /\ last.op = "Loyalty::validate" /\ WellFormed(block) => diags = <<>>
    /\ last.op = "Loyalty::validate" /\ block = ValueAbc =>
          diags = <<error(ValLoc(1), "Validation", "expected number")>>
    /\ last.op = "warn_remaining" /\ declared # {}
          /\ (WellFormed(block) \/ block = ValueAbc) => diags = <<>>

\* { value = abc } has been validated as a loyalty item: one diagnostic.
C25_Witness ==
    /\ last.op = "Loyalty::validate"
    /\ block = ValueAbc
    /\ Len(diags) = 1
    /\ diags[1].loc = ValLoc(1)

====
